---- MODULE Spec2Model ----
(***************************************************************************)
(* A model of the session-typed message-passing library `par`:            *)
(*   - exchange.rs : Recv / Send over one-shot cells, with link           *)
(*   - queue.rs    : Dequeue / Enqueue built on Recv / Send               *)
(*   - server.rs   : Server / Proxy / Connection over an mpsc inbox       *)
(* Endpoints live on a heap of one-shot cells (`cells`).  Three families   *)
(* of tasks use it: the exchange peers and linkers (Spec, FairSpec), the   *)
(* queue producer and consumer (QueueSpec) and the server with its         *)
(* clients (ServerSpec).                                                   *)
(***************************************************************************)
EXTENDS Integers, Sequences, FiniteSets, TLC

\* ------------------------------------------------------------------ bounds

\* Values a task may send are 1..MaxVal.
MaxVal == 2
\* Longest protocol (number of exchange steps) run by the exchange peers.
MaxSteps == 2
\* Longest chain of links between the two exchange peers.
MaxLinks == 2
\* Most items the producer pushes before it closes the queue.
MaxPush == 2
\* The accumulator a fold starts from is one of 0..MaxInit.
MaxInit == 1
\* Most Proxy handles ever made for one server, the first one included.
MaxProxies == 2
\* Most calls of suspend on one server.
MaxSuspends == 2

Values == 1..MaxVal

\* ------------------------------------------------------ endpoints and cells

\* An endpoint is the Recv or the Send half of one cell, or the empty session ().
End == [kind |-> "end", cell |-> 0]
RecvEp(c) == [kind |-> "recv", cell |-> c]
SendEp(c) == [kind |-> "send", cell |-> c]

\* The kind of Dual<S>, given the kind of S.
DualKind(k) == IF k = "recv" THEN "send" ELSE IF k = "send" THEN "recv" ELSE "end"

\* The endpoint that exchange.rs pairs with `e` (the other half of the same cell).
PeerOf(e) == [kind |-> DualKind(e.kind), cell |-> e.cell]

\* Payloads: a plain value of T, or one step of a queue.
IntVal(n) == [tag |-> "int", n |-> n, s |-> End]
NoVal == [tag |-> "none", n |-> 0, s |-> End]

\* enum Exchange<T, S> { Send((T, S)), Link(Recv<T, S>) }, and the empty slot.
NoMsg == [tag |-> "None", val |-> NoVal, ep |-> End]
ExchangeSend(v, s) == [tag |-> "Send", val |-> v, ep |-> s]
ExchangeLink(r) == [tag |-> "Link", val |-> NoVal, ep |-> r]

\* A fresh futures::channel::oneshot: nothing stored, both halves alive, no
\* waker registered.  deposits / takes count what went in and what came out.
NewCell == [msg |-> NoMsg, deposits |-> 0, takes |-> 0,
            parked |-> FALSE, waited |-> FALSE,
            txDropped |-> FALSE, rxDropped |-> FALSE]

\* oneshot send that stores the value although the receiver is gone.
oneshot_send_unchecked(cs, c, m) ==
    [ok |-> TRUE,
     cells |-> [cs EXCEPT ![c].msg = m,
                          ![c].deposits = @ + 1,
                          ![c].waited = cs[c].parked]]

\* oneshot::Sender::send: Err when the receiver is gone, else the value is stored.
\* `waited` remembers whether the receiver was already parked on this cell.
oneshot_send(cs, c, m) ==
    IF cs[c].rxDropped
    THEN [ok |-> FALSE, cells |-> cs]
    ELSE [ok |-> TRUE,
          cells |-> [cs EXCEPT ![c].msg = m,
                               ![c].deposits = @ + 1,
                               ![c].waited = cs[c].parked]]

\* rx.await that takes a dropped sender for one that has not sent yet.
oneshot_state_no_cancel(cs, c) ==
    IF cs[c].msg.tag # "None" THEN "ready"
    ELSE "pending"

\* What `rx.await` sees when polled: a stored value, a dropped sender, or nothing yet.
oneshot_state(cs, c) ==
    IF cs[c].msg.tag # "None" THEN "ready"
    ELSE IF cs[c].txDropped THEN "canceled"
    ELSE "pending"

\* The value leaves the cell when the receiver's poll returns Ready.
oneshot_take(cs, c) == [cs EXCEPT ![c].msg = NoMsg, ![c].takes = @ + 1, ![c].parked = FALSE]

\* The poll returned Pending: the receiver's waker is registered in the cell.
oneshot_park(cs, c) == [cs EXCEPT ![c].parked = TRUE]

\* An endpoint goes out of scope unused.  Recv and Send have no Drop of their
\* own: the oneshot half inside is dropped.  A dropped Sender cancels the cell;
\* a dropped Receiver closes it and, the Sender being consumed by its send, the
\* Exchange stored in the cell is dropped with it, and so is every endpoint
\* inside: the continuation or linked Recv, and the endpoint in a Queue value.
RECURSIVE DropEp(_, _)
DropEp(cs, e) ==
    IF e.kind = "end" THEN cs
    ELSE IF e.kind = "send" THEN [cs EXCEPT ![e.cell].txDropped = TRUE]
    ELSE LET m == cs[e.cell].msg
             closed == [cs EXCEPT ![e.cell].rxDropped = TRUE,
                                  ![e.cell].parked = FALSE,
                                  ![e.cell].msg = NoMsg]
         IN DropEp(DropEp(closed, m.ep), m.val.s)

\* fn endpoints() -> (Recv, Send): one new cell, its two halves.
endpoints(cs) ==
    [cells |-> Append(cs, NewCell), recv |-> RecvEp(Len(cs) + 1), send |-> SendEp(Len(cs) + 1)]

\* S::fork_sync(f) up to the call of f: the endpoint kept by the caller (`self`),
\* the one handed to f (`dual`) and the heap.  () allocates nothing.
fork_sync(kind, cs) ==
    IF kind = "end"
    THEN [cells |-> cs, self |-> End, dual |-> End]
    ELSE LET e == endpoints(cs)
         IN IF kind = "recv"
            THEN [cells |-> e.cells, self |-> e.recv, dual |-> e.send]
            ELSE [cells |-> e.cells, self |-> e.send, dual |-> e.recv]

\* Send::send keeping for itself the half it also puts in the message.
Send_send_same_half(cs, self, value, kind) ==
    LET f == fork_sync(kind, cs)
        r == oneshot_send(f.cells, self.cell, ExchangeSend(value, f.dual))
    IN [ok |-> r.ok, cells |-> r.cells, cont |-> f.dual]

\* Send::send handing back its own endpoint as the continuation, with no fork.
Send_send_reuse(cs, self, value, kind) ==
    LET r == oneshot_send(cs, self.cell,
                          ExchangeSend(value, IF kind = "end" THEN End ELSE PeerOf(self)))
    IN [ok |-> r.ok, cells |-> r.cells, cont |-> IF kind = "end" THEN End ELSE self]

\* Send::send(self, value) -> S, where `kind` is the kind of S.
\* ok = FALSE is the panic "receiver dropped".
Send_send(cs, self, value, kind) ==
    LET f == fork_sync(kind, cs)
        r == oneshot_send(f.cells, self.cell, ExchangeSend(value, f.dual))
    IN [ok |-> r.ok, cells |-> r.cells, cont |-> f.self]

\* Send::link(self, dual): the Recv goes into the Send's cell as Exchange::Link.
Send_link(cs, self, dual) == oneshot_send(cs, self.cell, ExchangeLink(dual))

\* Recv::link depositing into its own cell instead of delegating to the Send.
Recv_link_own_cell(cs, self, dual) == oneshot_send(cs, self.cell, ExchangeLink(dual))

\* Recv::link(self, dual) is dual.link(self).
Recv_link(cs, self, dual) == Send_link(cs, dual, self)

\* Recv::recv breaking out of the loop on Exchange::Link as well.
Recv_recv_no_loop(cs, self) ==
    LET m == cs[self.cell].msg
    IN [cells |-> oneshot_take(cs, self.cell),
        done |-> TRUE,
        val |-> m.val,
        cont |-> m.ep,
        self |-> self]

\* Recv::recv looping on Exchange::Link without `self = r`.
Recv_recv_same_self(cs, self) ==
    LET m == cs[self.cell].msg
    IN [cells |-> oneshot_take(cs, self.cell),
        done |-> m.tag = "Send",
        val |-> m.val,
        cont |-> IF m.tag = "Send" THEN m.ep ELSE End,
        self |-> self]

\* One turn of the loop of Recv::recv once `self.rx.await` is ready:
\* Exchange::Send(x) breaks with x, Exchange::Link(r) makes r the new self.
Recv_recv(cs, self) ==
    LET m == cs[self.cell].msg
    IN [cells |-> oneshot_take(cs, self.cell),
        done |-> m.tag = "Send",
        val |-> m.val,
        cont |-> IF m.tag = "Send" THEN m.ep ELSE End,
        self |-> IF m.tag = "Link" THEN m.ep ELSE self]

\* enum Queue<T, S> { Item(T, Dequeue<T, S>), Closed(S) }
QueueItem(item, deq) == [tag |-> "item", n |-> item, s |-> deq]
QueueClosed(s) == [tag |-> "closed", n |-> 0, s |-> s]

\* Enqueue::push returning the Enqueue it was called on.
Enqueue_push_reuse(cs, self, item) ==
    LET f == fork_sync("send", cs)
        r == Send_send(f.cells, self, QueueItem(item, f.dual), "end")
    IN [ok |-> r.ok, cells |-> r.cells, enq |-> self]

\* Enqueue::push(self, item) -> Self: Enqueue::fork_sync is Send::fork_sync with
\* the Recv wrapped as a Dequeue; the closure sends Item(item, dual) on the old
\* endpoint with send1.  `enq` is the Send inside the returned Enqueue.
Enqueue_push(cs, self, item) ==
    LET f == fork_sync("send", cs)
        r == Send_send(f.cells, self, QueueItem(item, f.dual), "end")
    IN [ok |-> r.ok, cells |-> r.cells, enq |-> f.self]

\* Enqueue::close sending its own half of S inside Closed.
Enqueue_close_own_half(cs, self, kind) ==
    LET f == fork_sync(kind, cs)
        r == Send_send(f.cells, self, QueueClosed(f.self), "end")
    IN [ok |-> r.ok, cells |-> r.cells, cont |-> f.self]

\* Enqueue::close(self) -> S, where `kind` is the kind of S: S::fork_sync, the
\* closure sends Closed(dual) on the endpoint with send1.
Enqueue_close(cs, self, kind) ==
    LET f == fork_sync(kind, cs)
        r == Send_send(f.cells, self, QueueClosed(f.dual), "end")
    IN [ok |-> r.ok, cells |-> r.cells, cont |-> f.self]

\* Dequeue::pop is self.deq.recv1(): one turn of the recv loop on the inner Recv;
\* when it is done, `val` is the Queue value popped.
Dequeue_pop(cs, self) == Recv_recv(cs, self)

\* ------------------------------------------------------------------ state

VARIABLES
    cells,      \* the heap of one-shot cells, in order of allocation
    peer,       \* the two exchange peers X and Y
    linker,     \* the tasks that link one pair to the next
    prod,       \* the queue's producer, holding the Enqueue
    cons,       \* the queue's consumer, holding the Dequeue
    server,     \* the Server value and the position of the task that owns it
    inbox,      \* the mpsc channel behind the server
    proxies,    \* the Proxy handles alive, and how many were ever made
    conns,      \* the Connection handles alive
    held,       \* the client-side sessions returned by connect and resume
    event,      \* what the last poll returned
    owner,      \* the task that owns the Server, between and inside its handlers
    client,     \* the tasks that each hold one Proxy or one Connection
    ty          \* a session type and what taking its Dual has made of it

exVars == <<peer, linker, ty>>
qVars == <<prod, cons>>
sVars == <<server, inbox, proxies, conns, held, event>>
tVars == <<owner, client>>
vars == <<cells, peer, linker, prod, cons, server, inbox, proxies, conns, held, event,
          owner, client, ty>>

\* ---------------------------------------------------------- queue: the tasks

\* The producer holds an Enqueue<T, S> (`enq` is its inner Send, `kind` the kind
\* of S); after close it holds S in `cont`.  pushed / result are its history.
NewProd(enq, kind, pc) ==
    [pc |-> pc, enq |-> enq, kind |-> kind, cont |-> End,
     pushed |-> <<>>, result |-> <<>>, fault |-> "none"]

\* The consumer holds the Dequeue<T, Dual<S>> (`deq` is its inner Recv) and
\* drains it with pop (mode "pop") or with fold (mode "fold"): accum, item and
\* rest are the locals of fold.  popped / lead / nclosed are its history: the
\* items pop returned, the number of pushes completed when the first pop
\* returned, and the number of Closed values pop returned.
NewCons(deq, mode, init, pc) ==
    [pc |-> pc, deq |-> deq, mode |-> mode, init |-> init, accum |-> init,
     item |-> 0, rest |-> End, cont |-> End,
     popped |-> <<>>, lead |-> -1, nclosed |-> 0, fault |-> "none"]

\* No queue in this system.
QueueIdle ==
    /\ prod = NewProd(End, "end", "idle")
    /\ cons = NewCons(End, "pop", 0, "idle")

\* --------------------------------------------------------- server: the state

\* What poll returns: Some((server, Event::Connect { session })),
\* Some((server, Event::Resume { session, data })) or None.  `want` is history:
\* the data given to the suspend that made the Connection behind a Resume.
NoEvent == [kind |-> "none", session |-> End, data |-> 0, want |-> 0]
PollNone == [kind |-> "None", session |-> End, data |-> 0, want |-> 0]
EventConnect(session) == [kind |-> "Connect", session |-> session, data |-> 0, want |-> 0]
EventResume(session, data, want) ==
    [kind |-> "Resume", session |-> session, data |-> data, want |-> want]

\* No server in this system.
ServerIdle ==
    /\ server = [pc |-> "off", sender |-> FALSE, data |-> <<>>, next_id |-> 0, fault |-> "none"]
    /\ inbox = [queue |-> <<>>, num_senders |-> 0, rx |-> FALSE]
    /\ proxies = [alive |-> 0, made |-> 0]
    /\ conns = {}
    /\ held = {}
    /\ event = NoEvent

\* The task owning the Server: `ep` is the session of the event it is handling
\* and `data` the data of a Resume; `conn` and `own` are a Connection it kept
\* for itself and the session its resume returned, `got` what it received there.
NewOwner(pc) ==
    [pc |-> pc, ep |-> End, data |-> 0, conn |-> 0, own |-> End, got |-> 0,
     fault |-> "none"]

\* A client task: it holds a Proxy, then the session it is logging in on, then
\* the Connection with ConnectionId `conn`, then the session its resume
\* returned.  nick / got are its history: what it logged in with and what the
\* server sent back on resume.
NewClient == [pc |-> "connect", ep |-> End, nick |-> 0, conn |-> 0, got |-> 0]

\* No tasks around a server in this system.
TasksIdle ==
    /\ owner = NewOwner("off")
    /\ client = <<>>

\* ------------------------------------------------------- exchange: the tasks

Peers == {"X", "Y"}
Other(p) == IF p = "X" THEN "Y" ELSE "X"

\* Protocols from X's side: X sends first, then any mix of sends and receives.
RECURSIVE ProtosOfLen(_)
ProtosOfLen(n) ==
    IF n = 1 THEN {<<"send">>}
    ELSE {Append(p, d) : p \in ProtosOfLen(n - 1), d \in {"send", "recv"}}
Protocols == UNION {ProtosOfLen(n) : n \in 1..MaxSteps}

DualProto(p) == [i \in 1..Len(p) |-> DualKind(p[i])]

\* The kind of the continuation session after the first step of `todo`.
ContKind(todo) == IF Len(todo) > 1 THEN todo[2] ELSE "end"

\* A peer holds one endpoint and the rest of its protocol (its session type).
\* proto / sent / rcvd / hops / lead are its history: the protocol it started
\* with, the values it sent, the values its recv calls returned, how many
\* Exchange::Link cells each recv walked through, and how many sends the other
\* peer had completed when each recv returned.
NewPeer(ep, todo) ==
    [ep |-> ep, proto |-> todo, todo |-> todo, sent |-> <<>>, rcvd |-> <<>>,
     fwd |-> 0, hops |-> <<>>, lead |-> <<>>, fault |-> "none"]

\* Linker j holds the Recv of pair j and the Send of pair j + 1 and links them.
\* sawQueued / sawParked record what the link found: something already
\* deposited in pair j (for j = 1, X's value), a receiver already parked on
\* pair j + 1.
NewLinker(j) ==
    [recv |-> RecvEp(j), send |-> SendEp(j + 1), done |-> FALSE,
     sawQueued |-> FALSE, sawParked |-> FALSE, fault |-> "none"]

\* A session type under study: `of` is the type, `dual` what n applications of
\* Dual have made of it.
NewType(S) == [of |-> S, dual |-> S, n |-> 0]

\* No exchange peers in this system.
ExchangeIdle ==
    /\ peer = [p \in Peers |-> NewPeer(End, <<>>)]
    /\ linker = <<>>
    /\ ty = NewType(<<>>)

\* k + 1 freshly forked pairs Recv(i) / Send(i): X holds Send(1), Y holds
\* Recv(k + 1) and k linkers hold the ends in between.  k = 0 is X and Y forked
\* directly as a pair.
InitEx ==
    \E k \in 0..MaxLinks, proto \in Protocols :
        /\ cells = [i \in 1..(k + 1) |-> NewCell]
        /\ peer = [p \in Peers |->
                     IF p = "X" THEN NewPeer(SendEp(1), proto)
                     ELSE NewPeer(RecvEp(k + 1), DualProto(proto))]
        /\ linker = [j \in 1..k |-> NewLinker(j)]
        /\ ty = NewType(<<>>)
        /\ QueueIdle
        /\ ServerIdle
        /\ TasksIdle

Running(p) == peer[p].fault = "none" /\ peer[p].todo # <<>>

\* p calls send(v) on its endpoint and goes on with the returned continuation.
ExSend(p) ==
    /\ Running(p)
    /\ Head(peer[p].todo) = "send"
    /\ \E v \in Values :
         LET r == Send_send(cells, peer[p].ep, IntVal(v), ContKind(peer[p].todo))
         IN IF r.ok
            THEN /\ cells' = r.cells
                 /\ peer' = [peer EXCEPT ![p].ep = r.cont,
                                         ![p].todo = Tail(@),
                                         ![p].sent = Append(@, v)]
            ELSE /\ cells' = cells
                 /\ peer' = [peer EXCEPT ![p].fault = "receiver dropped"]
    /\ UNCHANGED <<linker, ty, qVars, sVars, tVars>>

\* p is inside recv() and its cell is still empty: the await parks the task.
ExPark(p) ==
    /\ Running(p)
    /\ Head(peer[p].todo) = "recv"
    /\ oneshot_state(cells, peer[p].ep.cell) = "pending"
    /\ ~cells[peer[p].ep.cell].parked
    /\ cells' = oneshot_park(cells, peer[p].ep.cell)
    /\ UNCHANGED <<exVars, qVars, sVars, tVars>>

\* p is inside recv() and its cell holds something: one turn of the loop.
ExRecv(p) ==
    /\ Running(p)
    /\ Head(peer[p].todo) = "recv"
    /\ oneshot_state(cells, peer[p].ep.cell) = "ready"
    /\ LET r == Recv_recv(cells, peer[p].ep)
       IN /\ cells' = r.cells
          /\ peer' = IF r.done
                     THEN [peer EXCEPT ![p].ep = r.cont,
                                       ![p].todo = Tail(@),
                                       ![p].rcvd = Append(@, r.val.n),
                                       ![p].hops = Append(@, peer[p].fwd),
                                       ![p].lead = Append(@, Len(peer[Other(p)].sent)),
                                       ![p].fwd = 0]
                     ELSE [peer EXCEPT ![p].ep = r.self,
                                       ![p].fwd = @ + 1]
    /\ UNCHANGED <<linker, ty, qVars, sVars, tVars>>

\* Linker j calls link, as recv.link(send) or as send.link(recv).
ExLink(j) ==
    /\ j \in DOMAIN linker
    /\ ~linker[j].done
    /\ linker[j].fault = "none"
    /\ \E form \in {"Recv::link", "Send::link"} :
         LET l == linker[j]
             r == IF form = "Recv::link"
                  THEN Recv_link(cells, l.recv, l.send)
                  ELSE Send_link(cells, l.send, l.recv)
         IN IF r.ok
            THEN /\ cells' = r.cells
                 /\ linker' = [linker EXCEPT
                                 ![j].done = TRUE,
                                 ![j].sawQueued = (cells[l.recv.cell].deposits > 0),
                                 ![j].sawParked = cells[l.send.cell].parked]
            ELSE /\ cells' = DropEp(cells, l.recv)
                 /\ linker' = [linker EXCEPT ![j].fault = "receiver dropped"]
    /\ UNCHANGED <<peer, ty, qVars, sVars, tVars>>

NextEx ==
    \/ \E p \in Peers : ExSend(p)
    \/ \E p \in Peers : ExPark(p)
    \/ \E p \in Peers : ExRecv(p)
    \/ \E j \in 1..MaxLinks : ExLink(j)

Spec == InitEx /\ [][NextEx]_vars

\* Every spawned task that can take a step is eventually run by the executor.
FairSpec == InitEx /\ [][NextEx]_vars /\ WF_vars(NextEx)

\* ------------------------------------------------------ exchange: the claims

IsPrefix(a, b) == Len(a) <= Len(b) /\ \A i \in 1..Len(a) : a[i] = b[i]

\* The steps of its protocol that p has completed.
StepsDone(p) == Len(peer[p].proto) - Len(peer[p].todo)

NumLinks == Len(linker)

\* C1: on a freshly forked pair Recv / Send (no link in between), the first recv
\* returns exactly the value given to the first send, whether or not the receiver
\* was already waiting when the send happened, and once both sides hold the
\* continuation of that step the two continuations are the two halves of one
\* cell (or both are the empty session).
C1_ExchangeDelivery ==
    (NumLinks = 0 /\ Len(peer["Y"].rcvd) >= 1) =>
        /\ Len(peer["X"].sent) >= 1
        /\ peer["Y"].rcvd[1] = peer["X"].sent[1]
        /\ cells[1].deposits = 1 /\ cells[1].takes = 1
        /\ (StepsDone("X") = 1 /\ StepsDone("Y") = 1) => peer["Y"].ep = PeerOf(peer["X"].ep)

\* The receiver was parked on the cell when the value arrived, the protocol goes
\* on after the step, and both sides have just completed it.
C1_Witness ==
    /\ NumLinks = 0
    /\ cells[1].waited
    /\ StepsDone("X") = 1 /\ StepsDone("Y") = 1
    /\ peer["Y"].rcvd = <<2>>
    /\ peer["Y"].ep.kind = "send"
    /\ peer["Y"].ep = PeerOf(peer["X"].ep)

\* X's protocol is a chain of sends only.
IsChain(p) == \A i \in 1..Len(peer[p].proto) : peer[p].proto[i] = "send"

\* C2: on a chained exchange Send<T1, Send<T2, ...>> the values returned by the
\* peer's successive recv calls are, in every state, the first values that were
\* sent, in the order of the sends, and all of them once the receiver is done.
C2_ChainedOrder ==
    IsChain("X") =>
        /\ IsPrefix(peer["Y"].rcvd, peer["X"].sent)
        /\ peer["Y"].todo = <<>> => peer["Y"].rcvd = peer["X"].sent

\* Two different values were sent, both sends had completed when the first recv
\* returned, and the receiver got both in order.
C2_Witness ==
    /\ IsChain("X")
    /\ Len(peer["X"].sent) = MaxSteps
    /\ peer["X"].sent[1] # peer["X"].sent[2]
    /\ peer["Y"].rcvd = peer["X"].sent
    /\ peer["Y"].lead[1] = MaxSteps

\* What two peers forked directly as a pair on S / Dual(S) can observe: each
\* peer has received, in order, the first values the other sent, a completed
\* receive step is one the other side has completed too, and the exchange does
\* not stop before both protocols are finished.
ObservedAsDirect ==
    /\ \A p \in Peers :
         /\ IsPrefix(peer[p].rcvd, peer[Other(p)].sent)
         /\ \A i \in 1..StepsDone(p) :
              peer[p].proto[i] = "recv" => StepsDone(Other(p)) >= i
         /\ peer[p].fault = "none"
    /\ (~ENABLED NextEx) =>
         \A p \in Peers : /\ peer[p].todo = <<>>
                          /\ peer[p].rcvd = peer[Other(p)].sent
                          /\ peer[p].ep = End

\* C6: link transparency.  With any number of links between the pair held by X
\* and the pair held by Y, X and Y observe what directly paired peers observe,
\* in both directions and through every step of the protocol.
C6_LinkTransparency ==
    /\ ObservedAsDirect
    /\ \A j \in 1..NumLinks : linker[j].fault = "none"

\* One link, a protocol in which values flow both ways, both peers finished.
C6_Witness ==
    /\ NumLinks >= 1
    /\ \A j \in 1..NumLinks : linker[j].done
    /\ peer["X"].proto = <<"send", "recv">>
    /\ peer["X"].todo = <<>> /\ peer["Y"].todo = <<>>
    /\ peer["X"].sent = <<1>> /\ peer["Y"].sent = <<2>>
    /\ peer["Y"].rcvd = <<1>> /\ peer["X"].rcvd = <<2>>

\* C7: with X's pair linked to Y's pair, Y's first recv eventually returns the
\* value of X's first send, whatever the order of the send, the links and the
\* receiver parking; the value leaves X's cell exactly once.
C7_LinkedExactlyOnce ==
    /\ [](NumLinks >= 1 =>
            /\ cells[1].takes <= 1
            /\ Len(peer["Y"].rcvd) >= 1 =>
                 /\ peer["Y"].rcvd[1] = peer["X"].sent[1]
                 /\ cells[1].takes = 1
                 /\ cells[1].msg = NoMsg
                 /\ IsPrefix(peer["X"].rcvd, peer["Y"].sent))
    /\ (NumLinks >= 1) ~> (Len(peer["Y"].rcvd) >= 1)

\* The value was queued before the link and the receiver was parked on its own
\* cell before the link, and the value has arrived.
C7_Witness ==
    /\ NumLinks = 1
    /\ linker[1].sawQueued /\ linker[1].sawParked
    /\ peer["Y"].rcvd = <<2>> /\ peer["X"].sent = <<2>>
    /\ cells[1].takes = 1

\* C8: a recv at the head of a chain of k links terminates; it has then walked
\* through exactly the k cells holding Exchange::Link, each taken once, and no
\* turn of the recv loop allocates a cell.
C8_ChainTermination ==
    /\ [](Len(peer["Y"].hops) >= 1 =>
            /\ peer["Y"].hops[1] = NumLinks
            /\ \A j \in 2..(NumLinks + 1) : cells[j].deposits = 1 /\ cells[j].takes = 1)
    /\ [][(\E p \in Peers : ExRecv(p)) => Len(cells') = Len(cells)]_vars
    /\ <>(Len(peer["Y"].hops) >= 1)

\* The longest chain: the first recv walked MaxLinks links and returned the value.
C8_Witness ==
    /\ NumLinks = MaxLinks
    /\ peer["Y"].hops = <<MaxLinks>>
    /\ peer["Y"].rcvd = <<1>>

\* ------------------------------------------------------- queue: the actions

\* The function given to fold: appends the item as a digit, so that the result
\* depends on every item and on their order.
FoldF(accum, item) == accum * (MaxVal + 1) + item

\* One pair Dequeue / Enqueue forked for a producer and a consumer.  The
\* continuation S of the Enqueue is () or Recv<i64>, on which the consumer
\* reports its accumulator.
InitQ ==
    \E kind \in {"end", "recv"}, mode \in {"pop", "fold"}, init \in 0..MaxInit :
        /\ cells = <<NewCell>>
        /\ prod = NewProd(SendEp(1), kind, "push")
        /\ cons = NewCons(RecvEp(1), mode, init, "pop")
        /\ ExchangeIdle
        /\ ServerIdle
        /\ TasksIdle

\* The producer pushes one more item.
QPush ==
    /\ prod.pc = "push"
    /\ Len(prod.pushed) < MaxPush
    /\ \E v \in Values :
         LET r == Enqueue_push(cells, prod.enq, v)
         IN IF r.ok
            THEN /\ cells' = r.cells
                 /\ prod' = [prod EXCEPT !.enq = r.enq, !.pushed = Append(@, v)]
            ELSE /\ cells' = cells
                 /\ prod' = [prod EXCEPT !.fault = "receiver dropped", !.pc = "panic"]
    /\ UNCHANGED <<cons, exVars, sVars, tVars>>

\* The producer closes the queue and holds the continuation S.
QClose ==
    /\ prod.pc = "push"
    /\ LET r == Enqueue_close(cells, prod.enq, prod.kind)
       IN IF r.ok
          THEN /\ cells' = r.cells
               /\ prod' = [prod EXCEPT !.enq = End, !.cont = r.cont,
                                       !.pc = IF prod.kind = "recv" THEN "recv" ELSE "done"]
          ELSE /\ cells' = cells
               /\ prod' = [prod EXCEPT !.fault = "receiver dropped", !.pc = "panic"]
    /\ UNCHANGED <<cons, exVars, sVars, tVars>>

\* The producer awaits the consumer's report on S = Recv<i64>: its cell is empty.
QProdPark ==
    /\ prod.pc = "recv"
    /\ oneshot_state(cells, prod.cont.cell) = "pending"
    /\ ~cells[prod.cont.cell].parked
    /\ cells' = oneshot_park(cells, prod.cont.cell)
    /\ UNCHANGED <<qVars, exVars, sVars, tVars>>

\* The producer's recv1 on S = Recv<i64> takes what its cell holds.
QProdRecv ==
    /\ prod.pc = "recv"
    /\ oneshot_state(cells, prod.cont.cell) = "ready"
    /\ LET r == Recv_recv(cells, prod.cont)
       IN /\ cells' = r.cells
          /\ prod' = IF r.done
                     THEN [prod EXCEPT !.cont = r.cont, !.result = Append(@, r.val.n),
                                       !.pc = "done"]
                     ELSE [prod EXCEPT !.cont = r.self]
    /\ UNCHANGED <<cons, exVars, sVars, tVars>>

\* The consumer is inside pop() and the cell is still empty: the await parks it.
QPark ==
    /\ cons.pc = "pop"
    /\ oneshot_state(cells, cons.deq.cell) = "pending"
    /\ ~cells[cons.deq.cell].parked
    /\ cells' = oneshot_park(cells, cons.deq.cell)
    /\ UNCHANGED <<qVars, exVars, sVars, tVars>>

\* fold calling f on the initial value instead of the accumulator.
Dequeue_fold_item_init(c) ==
    [c EXCEPT !.accum = FoldF(c.init, c.item), !.deq = c.rest, !.rest = End,
              !.item = 0, !.pc = "pop"]

\* `accum = f(accum, item).await; self = rest;` in the loop of Dequeue::fold.
Dequeue_fold_item(c) ==
    [c EXCEPT !.accum = FoldF(c.accum, c.item), !.deq = c.rest, !.rest = End,
              !.item = 0, !.pc = "pop"]

\* fold that goes on to the next pop without waiting for f on the item.
Dequeue_on_pop_eager(c, q, npushed) ==
    IF q.tag = "item"
    THEN [c EXCEPT !.popped = Append(@, q.n),
                   !.lead = IF c.lead < 0 THEN npushed ELSE @,
                   !.item = q.n,
                   !.deq = q.s]
    ELSE [c EXCEPT !.cont = q.s, !.deq = End, !.nclosed = @ + 1, !.pc = "closed",
                   !.lead = IF c.lead < 0 THEN npushed ELSE @]

\* What the consumer does with the Queue value `q` that pop returned.  In fold,
\* Item(item, rest) goes to f before the next pop and Closed(session) ends the
\* loop; a caller of pop goes on with the Dequeue inside the Item.
Dequeue_on_pop(c, q, npushed) ==
    IF q.tag = "item"
    THEN LET seen == [c EXCEPT !.popped = Append(@, q.n),
                               !.lead = IF c.lead < 0 THEN npushed ELSE @]
         IN IF c.mode = "fold"
            THEN [seen EXCEPT !.item = q.n, !.rest = q.s, !.deq = End, !.pc = "f"]
            ELSE [seen EXCEPT !.deq = q.s]
    ELSE [c EXCEPT !.cont = q.s, !.deq = End, !.nclosed = @ + 1, !.pc = "closed",
                   !.lead = IF c.lead < 0 THEN npushed ELSE @]

\* The consumer is inside pop() and the cell holds something.
QPop ==
    /\ cons.pc = "pop"
    /\ oneshot_state(cells, cons.deq.cell) = "ready"
    /\ LET r == Dequeue_pop(cells, cons.deq)
       IN /\ cells' = r.cells
          /\ cons' = IF r.done
                     THEN Dequeue_on_pop(cons, r.val, Len(prod.pushed))
                     ELSE [cons EXCEPT !.deq = r.self]
    /\ UNCHANGED <<prod, exVars, sVars, tVars>>

\* The call of f for the item just popped completes.
QFoldF ==
    /\ cons.pc = "f"
    /\ cons' = Dequeue_fold_item(cons)
    /\ UNCHANGED <<cells, prod, exVars, sVars, tVars>>

\* The consumer holds S = Send<i64> and reports its accumulator with send1.
QReport ==
    /\ cons.pc = "closed"
    /\ cons.cont.kind = "send"
    /\ LET r == Send_send(cells, cons.cont, IntVal(cons.accum), "end")
       IN IF r.ok
          THEN /\ cells' = r.cells
               /\ cons' = [cons EXCEPT !.cont = r.cont, !.pc = "done"]
          ELSE /\ cells' = cells
               /\ cons' = [cons EXCEPT !.fault = "receiver dropped", !.pc = "panic"]
    /\ UNCHANGED <<prod, exVars, sVars, tVars>>

NextQ ==
    \/ QPush
    \/ QClose
    \/ QProdPark
    \/ QProdRecv
    \/ QPark
    \/ QPop
    \/ QFoldF
    \/ QReport

QueueSpec == InitQ /\ [][NextQ]_vars

\* -------------------------------------------------------- queue: the claims

\* The sequential left fold of `items` under the function given to fold.
RECURSIVE LeftFold(_, _)
LeftFold(init, items) ==
    IF items = <<>> THEN init ELSE LeftFold(FoldF(init, Head(items)), Tail(items))

\* C3: the items returned by successive pops are, in every state, the first
\* items pushed, in push order, and all of them once the queue has run dry.
C3_QueueFifo ==
    /\ IsPrefix(cons.popped, prod.pushed)
    /\ (~ENABLED NextQ) => cons.popped = prod.pushed

\* Two different items, both pushed before the first pop returned, popped in
\* push order by a caller of pop.
C3_Witness ==
    /\ cons.mode = "pop"
    /\ prod.pushed = <<2, 1>>
    /\ cons.popped = <<2, 1>>
    /\ cons.lead = MaxPush

\* C4: when fold returns, its accumulator is the sequential left fold of the
\* pushed items (init itself when nothing was pushed), and the session it
\* returns is the other half of the continuation that close returned: what the
\* consumer then reports on it is what the producer receives.
C4_FoldIsLeftFold ==
    cons.mode = "fold" =>
        /\ cons.pc \in {"closed", "done"} =>
             cons.accum = LeftFold(cons.init, prod.pushed)
        /\ cons.pc = "closed" => cons.cont = PeerOf(prod.cont)
        /\ prod.result # <<>> => prod.result = <<LeftFold(cons.init, prod.pushed)>>

\* A fold from 1 over the items 2, 1 whose result reached the producer.
C4_Witness ==
    /\ cons.mode = "fold"
    /\ cons.init = 1
    /\ prod.pushed = <<2, 1>>
    /\ prod.result = <<FoldF(FoldF(1, 2), 1)>>
    /\ FoldF(FoldF(1, 2), 1) # FoldF(FoldF(1, 1), 2)

\* C5: pop returns Closed at most once, only after close, and then every pushed
\* item has been returned before it; the consumer then holds no Dequeue any
\* more (no Item can follow), the session inside Closed is the other half of
\* the continuation that close returned, and a closed queue that has run dry
\* has returned Closed.
C5_ClosedAfterItems ==
    /\ cons.nclosed <= 1
    /\ cons.nclosed = 1 =>
         /\ prod.pc \notin {"push", "idle"}
         /\ cons.popped = prod.pushed
         /\ cons.deq = End
         /\ cons.pc = "closed" => cons.cont = PeerOf(prod.cont)
    /\ (prod.pc \notin {"push", "idle"} /\ ~ENABLED NextQ) => cons.nclosed = 1

\* Two items and then Closed carrying a Send whose Recv the producer holds.
C5_Witness ==
    /\ Len(prod.pushed) = MaxPush
    /\ cons.popped = prod.pushed
    /\ cons.nclosed = 1
    /\ cons.pc = "closed"
    /\ cons.cont.kind = "send"
    /\ prod.cont = PeerOf(cons.cont)

\* ---------------------------------------------------- server: the operations

\* futures::channel::mpsc as server.rs uses it.  Every Sender, wherever it is
\* held (the server, a proxy or resume closure, a message in the queue), counts
\* in num_senders; rx is the Receiver being alive.
mpsc_clone(ch) == [ch EXCEPT !.num_senders = @ + 1]
mpsc_drop(ch) == [ch EXCEPT !.num_senders = @ - 1]

\* try_send that puts the message in front of the older ones.
mpsc_try_send_lifo(ch, msg) ==
    IF ch.rx
    THEN [ok |-> TRUE, ch |-> [ch EXCEPT !.queue = <<msg>> \o @]]
    ELSE [ok |-> FALSE, ch |-> ch]

\* try_send of a channel that takes a message only when it holds none.
mpsc_try_send_rendezvous(ch, msg) ==
    IF ch.rx /\ ch.queue = <<>>
    THEN [ok |-> TRUE, ch |-> [ch EXCEPT !.queue = Append(@, msg)]]
    ELSE [ok |-> FALSE, ch |-> ch]

\* try_send that does not notice that the Receiver is gone.
mpsc_try_send_unchecked(ch, msg) ==
    [ok |-> TRUE, ch |-> [ch EXCEPT !.queue = Append(@, msg)]]

\* try_send from a Sender that has sent nothing yet: Err only when the Receiver
\* is gone, else the message is in the queue at once.
mpsc_try_send(ch, msg) ==
    IF ch.rx
    THEN [ok |-> TRUE, ch |-> [ch EXCEPT !.queue = Append(@, msg)]]
    ELSE [ok |-> FALSE, ch |-> ch]

\* receiver.next(): the oldest message, None once the queue is empty and no
\* Sender is left, and otherwise nothing yet.
mpsc_next(ch) ==
    IF ch.queue # <<>> THEN "some"
    ELSE IF ch.num_senders = 0 THEN "none"
    ELSE "pending"

\* type Exchange<C, R, D> = (Sender, Event): a message holds a Sender of its own.
\* A Resume travels with the ConnectionId in `id`.
InboxMsg(kind, session, id, want) ==
    [kind |-> kind, session |-> session, id |-> id, want |-> want]

\* HashMap insert and remove on the server's data.
MapInsert(m, k, v) == [i \in (DOMAIN m) \cup {k} |-> IF i = k THEN v ELSE m[i]]

\* remove that leaves the entry where it is.
MapRemove_keep(m, k) == m

\* HashMap::remove.
MapRemove(m, k) == [i \in (DOMAIN m) \ {k} |-> m[i]]

\* Server::start up to the call of f: channel(0), tx and its clone inside the
\* proxy closure, and the first Proxy in the hands of f.
Server_start ==
    [server |-> [pc |-> "starting", sender |-> TRUE, data |-> <<>>, next_id |-> 0,
                 fault |-> "none"],
     inbox |-> [queue |-> <<>>, num_senders |-> 2, rx |-> TRUE],
     proxies |-> [alive |-> 1, made |-> 1]]

\* suspend that gives the Connection no Sender of its own.
Server_suspend_no_clone(srv, ch, d) ==
    [server |-> [srv EXCEPT !.next_id = @ + 1, !.data = MapInsert(@, srv.next_id, d)],
     inbox |-> ch,
     conn |-> [id |-> srv.next_id, want |-> d]]

\* suspend that does not advance next_id.
Server_suspend_same_id(srv, ch, d) ==
    [server |-> [srv EXCEPT !.data = MapInsert(@, srv.next_id, d)],
     inbox |-> mpsc_clone(ch),
     conn |-> [id |-> srv.next_id, want |-> d]]

\* Server::suspend(&mut self, data, f) up to the call of f: a clone of the
\* sender for the resume closure, id = next_id, next_id += 1, data under id.
\* `want` in the Connection is history: the data it was made with.
Server_suspend(srv, ch, d) ==
    [server |-> [srv EXCEPT !.next_id = @ + 1, !.data = MapInsert(@, srv.next_id, d)],
     inbox |-> mpsc_clone(ch),
     conn |-> [id |-> srv.next_id, want |-> d]]

\* Proxy::clone(&self, f): the closure is cloned, and its Sender with it.
Proxy_clone(ch, px) ==
    [inbox |-> mpsc_clone(ch),
     proxies |-> [alive |-> px.alive + 1, made |-> px.made + 1]]

\* Proxy::connect(self): Connect::fork_sync, and in the closure try_send of
\* (proxy_sender.clone(), Event::Connect { session }); the proxy's own Sender is
\* dropped with the closure.  ok = FALSE is the panic "server dropped": the
\* message comes back in the error and is dropped, the Sender in it too, and
\* the unwinding drops both halves of the forked pair.
Proxy_connect(cs, ch) ==
    LET f == fork_sync("send", cs)
        r == mpsc_try_send(mpsc_clone(ch), InboxMsg("Connect", f.dual, 0, 0))
    IN IF r.ok
       THEN [ok |-> TRUE, cells |-> f.cells, inbox |-> mpsc_drop(r.ch), session |-> f.self]
       ELSE [ok |-> FALSE, cells |-> DropEp(DropEp(f.cells, f.dual), f.self),
             inbox |-> mpsc_drop(mpsc_drop(r.ch)), session |-> End]

\* Connection::resume(self): Resume::fork_sync, and in the closure try_send on a
\* temporary clone of (sender, Event::Resume { session, data: id }).  ok = FALSE
\* is the panic "server dropped", as in connect.
Connection_resume(cs, ch, c) ==
    LET f == fork_sync("send", cs)
        r == mpsc_try_send(mpsc_clone(ch), InboxMsg("Resume", f.dual, c.id, c.want))
    IN IF r.ok
       THEN [ok |-> TRUE, cells |-> f.cells, inbox |-> mpsc_drop(r.ch), session |-> f.self]
       ELSE [ok |-> FALSE, cells |-> DropEp(DropEp(f.cells, f.dual), f.self),
             inbox |-> mpsc_drop(mpsc_drop(r.ch)), session |-> End]

\* resume putting in the event the half of the session that it also returns.
Connection_resume_as_same_half(cs, ch, c, kind) ==
    LET f == fork_sync(kind, cs)
        r == mpsc_try_send(mpsc_clone(ch), InboxMsg("Resume", f.self, c.id, c.want))
    IN [ok |-> r.ok, cells |-> f.cells, inbox |-> mpsc_drop(r.ch), session |-> f.self]

\* Connection::resume(self) -> R::Dual for a resumption protocol R whose dual is
\* of the given kind: R::Dual::fork_sync, the closure deposits the R half.
Connection_resume_as(cs, ch, c, kind) ==
    LET f == fork_sync(kind, cs)
        r == mpsc_try_send(mpsc_clone(ch), InboxMsg("Resume", f.dual, c.id, c.want))
    IN IF r.ok
       THEN [ok |-> TRUE, cells |-> f.cells, inbox |-> mpsc_drop(r.ch), session |-> f.self]
       ELSE [ok |-> FALSE, cells |-> DropEp(DropEp(f.cells, f.dual), f.self),
             inbox |-> mpsc_drop(mpsc_drop(r.ch)), session |-> End]

\* poll that keeps the server's own Sender while it waits.
Server_poll_release_keep_sender(srv, ch) ==
    [server |-> [srv EXCEPT !.pc = "polling"],
     inbox |-> ch]

\* The first statement of Server::poll: drop(self.sender).
Server_poll_release(srv, ch) ==
    [server |-> [srv EXCEPT !.sender = FALSE, !.pc = "polling"],
     inbox |-> mpsc_drop(ch)]

\* poll that empties the inbox and returns only the oldest event.
Server_poll_ready_drain(srv, ch) ==
    IF mpsc_next(ch) = "none"
    THEN [server |-> [srv EXCEPT !.pc = "done"], inbox |-> [ch EXCEPT !.rx = FALSE],
          event |-> PollNone]
    ELSE LET m == Head(ch.queue)
             rest == [ch EXCEPT !.queue = <<>>]
         IN IF m.kind = "Connect"
            THEN [server |-> [srv EXCEPT !.sender = TRUE, !.pc = "idle"],
                  inbox |-> rest,
                  event |-> EventConnect(m.session)]
            ELSE [server |-> [srv EXCEPT !.sender = TRUE, !.pc = "idle",
                                         !.data = MapRemove(@, m.id)],
                  inbox |-> rest,
                  event |-> EventResume(m.session, srv.data[m.id], m.want)]

\* poll that leaves the data of a Resume in the map.
Server_poll_ready_keep_data(srv, ch) ==
    IF mpsc_next(ch) = "none"
    THEN [server |-> [srv EXCEPT !.pc = "done"], inbox |-> [ch EXCEPT !.rx = FALSE],
          event |-> PollNone]
    ELSE LET m == Head(ch.queue)
             rest == [ch EXCEPT !.queue = Tail(@)]
         IN IF m.kind = "Connect"
            THEN [server |-> [srv EXCEPT !.sender = TRUE, !.pc = "idle"],
                  inbox |-> rest,
                  event |-> EventConnect(m.session)]
            ELSE [server |-> [srv EXCEPT !.sender = TRUE, !.pc = "idle"],
                  inbox |-> rest,
                  event |-> EventResume(m.session, srv.data[m.id], m.want)]

\* The rest of Server::poll once receiver.next() is ready.  Some((sender, trans)):
\* the message's Sender becomes self.sender, and the id of a Resume is replaced
\* by the data removed from the map (the panic "missing connection data" when
\* there is none).  None: the server is dropped.
Server_poll_ready(srv, ch) ==
    IF mpsc_next(ch) = "none"
    THEN [server |-> [srv EXCEPT !.pc = "done"], inbox |-> [ch EXCEPT !.rx = FALSE],
          event |-> PollNone]
    ELSE LET m == Head(ch.queue)
             rest == [ch EXCEPT !.queue = Tail(@)]
         IN IF m.kind = "Connect"
            THEN [server |-> [srv EXCEPT !.sender = TRUE, !.pc = "idle"],
                  inbox |-> rest,
                  event |-> EventConnect(m.session)]
            ELSE IF m.id \in DOMAIN srv.data
            THEN [server |-> [srv EXCEPT !.sender = TRUE, !.pc = "idle",
                                         !.data = MapRemove(@, m.id)],
                  inbox |-> rest,
                  event |-> EventResume(m.session, srv.data[m.id], m.want)]
            ELSE [server |-> [srv EXCEPT !.sender = TRUE, !.pc = "panic",
                                         !.fault = "missing connection data"],
                  inbox |-> rest,
                  event |-> NoEvent]

\* ------------------------------------------------------- server: the actions

\* Inside Server::start, with the first Proxy handed to f.
InitS ==
    /\ server = Server_start.server
    /\ inbox = Server_start.inbox
    /\ proxies = Server_start.proxies
    /\ conns = {}
    /\ held = {}
    /\ event = NoEvent
    /\ cells = <<>>
    /\ ExchangeIdle
    /\ QueueIdle
    /\ TasksIdle

\* f returns and start returns the Server.
SrvStarted ==
    /\ server.pc = "starting"
    /\ server' = [server EXCEPT !.pc = "idle"]
    /\ UNCHANGED <<cells, inbox, proxies, conns, held, event, exVars, qVars, tVars>>

\* The owner of the Server calls suspend(d, f); f passes the Connection on.
SrvSuspend ==
    /\ server.pc = "idle"
    /\ server.next_id < MaxSuspends
    /\ \E d \in Values :
         LET r == Server_suspend(server, inbox, d)
         IN /\ server' = r.server
            /\ inbox' = r.inbox
            /\ conns' = conns \cup {r.conn}
    /\ UNCHANGED <<cells, proxies, held, event, exVars, qVars, tVars>>

\* The owner calls poll: the server's own Sender is released.
SrvPollBegin ==
    /\ server.pc = "idle"
    /\ LET r == Server_poll_release(server, inbox)
       IN /\ server' = r.server
          /\ inbox' = r.inbox
    /\ UNCHANGED <<cells, proxies, conns, held, event, exVars, qVars, tVars>>

\* The await in poll is ready: poll returns an event or None.
SrvPollEnd ==
    /\ server.pc = "polling"
    /\ mpsc_next(inbox) # "pending"
    /\ LET r == Server_poll_ready(server, inbox)
       IN /\ server' = r.server
          /\ inbox' = r.inbox
          /\ event' = r.event
    /\ UNCHANGED <<cells, proxies, conns, held, exVars, qVars, tVars>>

\* A holder of a Proxy clones it into another scope.
CliClone ==
    /\ proxies.alive > 0
    /\ proxies.made < MaxProxies
    /\ LET r == Proxy_clone(inbox, proxies)
       IN /\ inbox' = r.inbox
          /\ proxies' = r.proxies
    /\ UNCHANGED <<cells, server, conns, held, event, exVars, qVars, tVars>>

\* A holder of a Proxy calls connect.
CliConnect ==
    /\ proxies.alive > 0
    /\ LET r == Proxy_connect(cells, inbox)
       IN /\ r.ok
          /\ cells' = r.cells
          /\ inbox' = r.inbox
          /\ held' = held \cup {r.session}
    /\ proxies' = [proxies EXCEPT !.alive = @ - 1]
    /\ UNCHANGED <<server, conns, event, exVars, qVars, tVars>>

\* A Proxy is dropped.
CliDropProxy ==
    /\ proxies.alive > 0
    /\ proxies' = [proxies EXCEPT !.alive = @ - 1]
    /\ inbox' = mpsc_drop(inbox)
    /\ UNCHANGED <<cells, server, conns, held, event, exVars, qVars, tVars>>

\* The holder of Connection c calls resume.
CliResume(c) ==
    /\ c \in conns
    /\ LET r == Connection_resume(cells, inbox, c)
       IN /\ r.ok
          /\ cells' = r.cells
          /\ inbox' = r.inbox
          /\ held' = held \cup {r.session}
    /\ conns' = conns \ {c}
    /\ UNCHANGED <<server, proxies, event, exVars, qVars, tVars>>

\* Connection c is dropped without being resumed.
CliDropConn(c) ==
    /\ c \in conns
    /\ conns' = conns \ {c}
    /\ inbox' = mpsc_drop(inbox)
    /\ UNCHANGED <<cells, server, proxies, held, event, exVars, qVars, tVars>>

NextS ==
    \/ SrvStarted
    \/ SrvSuspend
    \/ SrvPollBegin
    \/ SrvPollEnd
    \/ CliClone
    \/ CliConnect
    \/ CliDropProxy
    \/ \E c \in conns : CliResume(c)
    \/ \E c \in conns : CliDropConn(c)

ServerSpec == InitS /\ [][NextS]_vars

\* -------------------------------------------------------- server: the claims

\* C9: every Resume event returned by poll carries the data that was given to
\* the suspend call which made the Connection whose resume produced the event.
C9_ResumeData ==
    /\ event.kind = "Resume" => event.data = event.want
    /\ server.fault = "none"

\* Two connections suspended with data 1 and then 2 and resumed in the opposite
\* order: the second one's event has just been returned with its own data while
\* the first one's Resume is still in the inbox.
C9_Witness ==
    /\ event.kind = "Resume"
    /\ event.data = 2 /\ event.want = 2
    /\ server.next_id = 2
    /\ \E m \in {inbox.queue[i] : i \in 1..Len(inbox.queue)} :
         m.kind = "Resume" /\ m.want = 1 /\ m.id = 0

\* C10: poll has returned None only if no Proxy is alive, no Connection is
\* alive and no event is left in the inbox.
C10_NoneOnlyWhenAllGone ==
    event.kind = "None" =>
        /\ proxies.alive = 0
        /\ conns = {}
        /\ inbox.queue = <<>>

\* poll returned None after the server had suspended connections and returned
\* events.
C10_Witness ==
    /\ event.kind = "None"
    /\ server.pc = "done"
    /\ server.next_id = MaxSuspends
    /\ proxies.made = MaxProxies
    /\ Cardinality(held) >= 2

\* The executor runs the server's task again once its await in poll is ready:
\* the channel wakes the receiver on every message and on the last Sender's drop.
FairServerSpec == InitS /\ [][NextS]_vars /\ WF_vars(SrvPollEnd)

\* Every Proxy and Connection is consumed or dropped and no event is pending.
AllHandlesGone ==
    /\ proxies.alive = 0
    /\ conns = {}
    /\ inbox.queue = <<>>

\* C11: a poll that is under way once every Proxy and every Connection has been
\* consumed or dropped and every event has been returned eventually returns
\* None.
C11_EventuallyNone ==
    (server.pc = "polling" /\ AllHandlesGone) ~> (event.kind = "None")

\* poll returned None with no Sender left anywhere: the server's own one was
\* released by this poll and the last event's one by the poll before.
C11_Witness ==
    /\ event.kind = "None"
    /\ inbox.num_senders = 0
    /\ ~server.sender
    /\ ~inbox.rx
    /\ server.next_id >= 1

\* connect and resume fork their session in the step that deposits the event, so
\* the cell of an event's session numbers the deposits in the order they were
\* made.
DepositNo(m) == m.session.cell

\* C12: successive polls return the events in the order in which the deposits of
\* connect and resume were made: the inbox holds them oldest first, poll returns
\* the oldest, and every event returned was deposited after the one before it.
C12_DepositOrder ==
    /\ [](\A i, j \in 1..Len(inbox.queue) :
            i < j => DepositNo(inbox.queue[i]) < DepositNo(inbox.queue[j]))
    /\ [][(event' # event /\ event'.kind \in {"Connect", "Resume"}) =>
            /\ inbox.queue # <<>>
            /\ event'.session = Head(inbox.queue).session
            /\ \A i \in 1..Len(inbox'.queue) :
                 DepositNo(inbox'.queue[i]) > DepositNo(event')
            /\ event.kind \in {"Connect", "Resume"} =>
                 DepositNo(event') > DepositNo(event)]_vars

\* Three deposits were made before the second poll: it has returned the second
\* of them and the third is the only one left.
C12_Witness ==
    /\ event.kind \in {"Connect", "Resume"}
    /\ DepositNo(event) = 2
    /\ Len(inbox.queue) = 1
    /\ DepositNo(inbox.queue[1]) = 3

\* The claim as the specification words it: a producer whose connect or resume
\* has returned (it holds the session) has been admitted by a poll, so no event
\* of such a producer is still in the inbox.
C13_ProducersSuspend ==
    \A i \in 1..Len(inbox.queue) : PeerOf(inbox.queue[i].session) \notin held

\* C13: poll is the only step that takes events out of the inbox, one event per
\* poll and the oldest first; connect and resume put their event in the inbox
\* and return in the same step, whether or not the server is polling.
C13_PollAdmitsOneAtATime ==
    [][inbox'.queue # inbox.queue =>
         \/ /\ Len(inbox'.queue) = Len(inbox.queue) + 1
            /\ SubSeq(inbox'.queue, 1, Len(inbox.queue)) = inbox.queue
            /\ PeerOf(inbox'.queue[Len(inbox'.queue)].session) \in held'
            /\ server' = server
         \/ /\ server.pc = "polling"
            /\ server'.pc # "polling"
            /\ inbox'.queue = Tail(inbox.queue)
            /\ held' = held]_vars

\* The server has never polled, and two producers have returned from connect
\* or resume with their events both in the inbox.
C13_Witness ==
    /\ event.kind = "none"
    /\ server.pc \in {"starting", "idle"}
    /\ Len(inbox.queue) >= 2
    /\ \A i \in 1..Len(inbox.queue) : PeerOf(inbox.queue[i].session) \in held

\* C14: suspend, connect and resume do not wait: whoever holds the Server (not
\* inside poll), a Proxy or a Connection can take the step, whatever the server
\* is doing and however many events are unpolled.
C14_NoAwait ==
    /\ proxies.alive > 0 => ENABLED CliConnect
    /\ \A c \in conns : ENABLED CliResume(c)
    /\ (server.pc = "idle" /\ server.next_id < MaxSuspends) => ENABLED SrvSuspend

\* A resume has returned with two older events unpolled and the server not
\* polling.
C14_Witness ==
    /\ server.pc = "idle"
    /\ Len(inbox.queue) = 3
    /\ inbox.queue[3].kind = "Resume"
    /\ Cardinality(held) = 3

\* The server with every Connection used as the library demands ("must not be
\* dropped"): each one is resumed, none is dropped.
NextLinear ==
    \/ SrvStarted
    \/ SrvSuspend
    \/ SrvPollBegin
    \/ SrvPollEnd
    \/ CliClone
    \/ CliConnect
    \/ CliDropProxy
    \/ \E c \in conns : CliResume(c)

LinearServerSpec == InitS /\ [][NextLinear]_vars

\* The Connection handles with ConnectionId id that have not been resumed, and
\* the Resume events with that id that no poll has returned yet.
Outstanding(id) == {c \in conns : c.id = id}
UnpolledResumes(id) ==
    {i \in 1..Len(inbox.queue) : inbox.queue[i].kind = "Resume" /\ inbox.queue[i].id = id}

\* The claim as the specification words it: every id in the data map has exactly
\* one Connection handle that has not been resumed.
C16_EntryHasUnresumedHandle ==
    \A id \in DOMAIN server.data : Cardinality(Outstanding(id)) = 1

\* C16: while no Connection is dropped, every ConnectionId in the data map
\* belongs to exactly one Connection that is either not yet resumed or resumed
\* with its Resume event not yet returned by poll; every such Connection and
\* event has its id in the map, and an entry leaves the map only in the poll that
\* returns its Resume event.
C16_EntryUntilPolled ==
    /\ [](/\ \A id \in DOMAIN server.data :
               Cardinality(Outstanding(id)) + Cardinality(UnpolledResumes(id)) = 1
          /\ \A c \in conns : c.id \in DOMAIN server.data
          /\ \A i \in 1..Len(inbox.queue) :
               inbox.queue[i].kind = "Resume" => inbox.queue[i].id \in DOMAIN server.data)
    /\ [][\A id \in DOMAIN server.data :
            id \notin DOMAIN server'.data =>
                /\ server.pc = "polling"
                /\ Head(inbox.queue).kind = "Resume"
                /\ Head(inbox.queue).id = id
                /\ event'.kind = "Resume"]_vars

\* Connection 0 has been resumed and its event is unpolled, connection 1 is not
\* resumed: both ids are in the map.
C16_Witness ==
    /\ DOMAIN server.data = {0, 1}
    /\ Outstanding(0) = {}
    /\ UnpolledResumes(0) # {}
    /\ Cardinality(Outstanding(1)) = 1

\* ------------------------------------------ the operations that do not wait

\* Every system of exchange peers with links and every system of a queue.
SendSpec == (InitEx \/ InitQ) /\ [][NextEx \/ NextQ]_vars

\* Nothing a send on endpoint e would have to wait for: e is a Send whose
\* one-shot slot has never been filled and whose receiver is alive.
Vacant(e) ==
    /\ e.kind = "send"
    /\ cells[e.cell].deposits = 0
    /\ ~cells[e.cell].rxDropped

\* The tasks that are inside an await on the Recv of cell c.
Awaiting(c) ==
    {p \in Peers : Running(p) /\ Head(peer[p].todo) = "recv" /\ peer[p].ep = RecvEp(c)}
      \cup (IF cons.pc = "pop" /\ cons.deq = RecvEp(c) THEN {"consumer"} ELSE {})
      \cup (IF prod.pc = "recv" /\ prod.cont = RecvEp(c) THEN {"producer"} ELSE {})

\* C15: send, push, close and link do not wait: whoever holds the endpoint can
\* take the step in any state of the peer, the step finds its slot empty and
\* completes without a fault, and the only tasks ever parked on a cell are
\* inside recv or pop.
C15_SendsNeverWait ==
    /\ \A p \in Peers :
         (Running(p) /\ Head(peer[p].todo) = "send") =>
             /\ ENABLED ExSend(p)
             /\ Vacant(peer[p].ep)
             /\ \A v \in Values :
                  Send_send(cells, peer[p].ep, IntVal(v), ContKind(peer[p].todo)).ok
    /\ \A j \in DOMAIN linker :
         ~linker[j].done =>
             /\ ENABLED ExLink(j)
             /\ Vacant(linker[j].send)
             /\ Send_link(cells, linker[j].send, linker[j].recv).ok
    /\ prod.pc = "push" =>
         /\ ENABLED QClose
         /\ Len(prod.pushed) < MaxPush => ENABLED QPush
         /\ Vacant(prod.enq)
         /\ Enqueue_close(cells, prod.enq, prod.kind).ok
         /\ \A v \in Values : Enqueue_push(cells, prod.enq, v).ok
    /\ \A p \in Peers : peer[p].fault = "none"
    /\ \A j \in DOMAIN linker : linker[j].fault = "none"
    /\ prod.fault = "none"
    /\ \A c \in DOMAIN cells : cells[c].parked => Awaiting(c) # {}

\* X has done MaxSteps sends and both linkers have linked while Y has not taken
\* a step: nothing is parked and nothing has been taken out of any cell.
C15_Witness ==
    /\ Len(peer["X"].sent) = MaxSteps
    /\ peer["X"].todo = <<>>
    /\ Len(linker) = MaxLinks
    /\ \A j \in DOMAIN linker : linker[j].done
    /\ \A c \in DOMAIN cells : cells[c].takes = 0 /\ ~cells[c].parked
    /\ Len(peer["Y"].todo) = MaxSteps

\* ------------------------------------------------ exchange: dropped endpoints

\* p lets its Send go out of scope instead of sending on it and leaves the
\* protocol.
ExDropSend(p) ==
    /\ Running(p)
    /\ Head(peer[p].todo) = "send"
    /\ cells' = DropEp(cells, peer[p].ep)
    /\ peer' = [peer EXCEPT ![p].fault = "dropped"]
    /\ UNCHANGED <<linker, ty, qVars, sVars, tVars>>

\* p lets its Recv go out of scope instead of receiving on it (or the future of
\* its recv is dropped while parked) and leaves the protocol.
ExDropRecv(p) ==
    /\ Running(p)
    /\ Head(peer[p].todo) = "recv"
    /\ cells' = DropEp(cells, peer[p].ep)
    /\ peer' = [peer EXCEPT ![p].fault = "dropped"]
    /\ UNCHANGED <<linker, ty, qVars, sVars, tVars>>

\* p is inside recv() and the Sender of its cell is gone with nothing sent:
\* self.rx.await is Err(Canceled) and expect panics with "sender dropped".
ExRecvFail(p) ==
    /\ Running(p)
    /\ Head(peer[p].todo) = "recv"
    /\ oneshot_state(cells, peer[p].ep.cell) = "canceled"
    /\ cells' = DropEp(cells, peer[p].ep)
    /\ peer' = [peer EXCEPT ![p].fault = "sender dropped"]
    /\ UNCHANGED <<linker, ty, qVars, sVars, tVars>>

NextDrop ==
    \/ \E p \in Peers : ExSend(p)
    \/ \E p \in Peers : ExPark(p)
    \/ \E p \in Peers : ExRecv(p)
    \/ \E j \in 1..MaxLinks : ExLink(j)
    \/ \E p \in Peers : ExDropSend(p)
    \/ \E p \in Peers : ExDropRecv(p)
    \/ \E p \in Peers : ExRecvFail(p)

DropSpec == InitEx /\ [][NextDrop]_vars

\* p dropped the endpoint of kind k that it held unused.
Dropped(p, k) == peer[p].fault = "dropped" /\ Head(peer[p].todo) = k

\* No task can take a step of its protocol or fault: whatever is left to do is
\* waiting (or could only be abandoned).
Quiescent == ~ENABLED NextEx /\ \A p \in Peers : ~ENABLED ExRecvFail(p)

\* C19: a recv paired, directly or through links, with a Send that was dropped
\* without sending returns no value and ends in the fault "sender dropped": the
\* fault is raised only at a cell whose Sender is gone with nothing deposited,
\* the failed recv adds nothing to what was received, and the peer of a dropped
\* Send is never left waiting: once no task can step, it has ended in that fault.
C19_SenderDropped ==
    /\ \A p \in Peers :
         peer[p].fault = "sender dropped" =>
             /\ Head(peer[p].todo) = "recv"
             /\ cells[peer[p].ep.cell].txDropped
             /\ cells[peer[p].ep.cell].deposits = 0
             /\ Len(peer[p].rcvd) + Len(peer[p].sent) + Len(peer[p].todo) = Len(peer[p].proto)
    /\ \A p \in Peers :
         (Quiescent /\ Dropped(p, "send") /\ peer[Other(p)].fault # "dropped") =>
             /\ peer[Other(p)].fault = "sender dropped"
             /\ peer[Other(p)].rcvd = peer[p].sent

\* X dropped its first Send; Y walked MaxLinks links to the pair X held and its
\* recv ended in "sender dropped".
C19_Witness ==
    /\ Dropped("X", "send")
    /\ peer["X"].sent = <<>>
    /\ peer["Y"].fault = "sender dropped"
    /\ peer["Y"].fwd = MaxLinks
    /\ peer["Y"].ep = RecvEp(1)
    /\ Quiescent

\* C20: what a send does is decided by whether the Recv of its cell is already
\* dropped at the moment of the call: if it is, the send ends in "receiver
\* dropped", hands back no continuation and stores nothing; if it is not, the
\* send stores its value and returns normally, and a later drop of that Recv
\* discards the stored value in a step that faults nobody.
C20_ReceiverDropped ==
    [][/\ \A p \in Peers :
            (Running(p) /\ Head(peer[p].todo) = "send" /\
             (peer'[p].sent # peer[p].sent \/ peer'[p].fault = "receiver dropped")) =>
                IF cells[peer[p].ep.cell].rxDropped
                THEN /\ peer'[p].fault = "receiver dropped"
                     /\ peer'[p].sent = peer[p].sent
                     /\ peer'[p].ep = peer[p].ep
                     /\ cells' = cells
                ELSE /\ peer'[p].fault = "none"
                     /\ Len(peer'[p].sent) = Len(peer[p].sent) + 1
                     /\ peer'[p].ep.kind = ContKind(peer[p].todo)
                     /\ cells'[peer[p].ep.cell].msg.tag = "Send"
       /\ \A c \in DOMAIN cells :
            (cells'[c].rxDropped /\ ~cells[c].rxDropped /\ cells[c].msg.tag = "Send") =>
                /\ cells'[c].msg = NoMsg
                /\ cells'[c].takes = cells[c].takes
                /\ \A p \in Peers :
                     peer'[p].fault \in {peer[p].fault, "dropped"}
                     /\ peer'[p].sent = peer[p].sent
                     /\ peer'[p].rcvd = peer[p].rcvd]_vars

\* X's first send returned normally before Y dropped the Recv, which discarded
\* the value; X's second send, made after the drop, ended in "receiver dropped".
C20_Witness ==
    /\ Len(peer["X"].sent) = 1
    /\ peer["X"].fault = "receiver dropped"
    /\ Dropped("Y", "recv")
    /\ peer["Y"].rcvd = <<>>
    /\ cells[1].deposits = 1 /\ cells[1].takes = 0 /\ cells[1].msg = NoMsg

\* ------------------------------------------- a server with its client tasks

\* Most client tasks around one server.
MaxClients == 2

\* The system of examples/chat.rs cut down to its sessions with the server:
\*   Connect = Recv<Nick, Send<Connection>>   (Login without the inbox)
\*   Resume  = Send<Nick>                     (the server answers a resume)
\* Each client connects, sends a nick, receives its Connection, resumes it and
\* receives what the server sends on resume.  The owner of the Server polls in
\* a loop and handles each event before it polls again.

\* A Connection travelling as the value of an exchange.
ConnVal(c) == [tag |-> "conn", n |-> c.id, s |-> End]

\* Server::start with f cloning the Proxy once for each further client.
RECURSIVE ProxiesFor(_)
ProxiesFor(n) ==
    IF n = 1
    THEN [inbox |-> Server_start.inbox, proxies |-> Server_start.proxies]
    ELSE Proxy_clone(ProxiesFor(n - 1).inbox, ProxiesFor(n - 1).proxies)

\* start has returned, n client tasks hold one Proxy each.  A scoped owner goes
\* straight into its poll loop; an owner that breaks the scoping rule first
\* makes a Connection for itself.
InitTasks(n, scoped) ==
    /\ server = [Server_start.server EXCEPT !.pc = "idle"]
    /\ inbox = ProxiesFor(n).inbox
    /\ proxies = ProxiesFor(n).proxies
    /\ conns = {}
    /\ held = {}
    /\ event = NoEvent
    /\ cells = <<>>
    /\ owner = NewOwner(IF scoped THEN "free" ELSE "own-suspend")
    /\ client = [i \in 1..n |-> NewClient]
    /\ ExchangeIdle
    /\ QueueIdle

InitT == \E n \in 1..MaxClients : InitTasks(n, TRUE)

\* while let Some(..) = server.poll().await: the owner, having handled the last
\* event, calls poll.
TPollBegin ==
    /\ owner.pc = "free"
    /\ server.pc = "idle"
    /\ LET r == Server_poll_release(server, inbox)
       IN /\ server' = r.server
          /\ inbox' = r.inbox
    /\ UNCHANGED <<cells, proxies, conns, held, event, owner, client, exVars, qVars>>

\* poll returns: the owner enters the handler of the event, or leaves the loop
\* on None.
TPollEnd ==
    /\ server.pc = "polling"
    /\ mpsc_next(inbox) # "pending"
    /\ LET r == Server_poll_ready(server, inbox)
       IN /\ server' = r.server
          /\ inbox' = r.inbox
          /\ event' = r.event
          /\ owner' = [owner EXCEPT
                         !.pc = IF r.event.kind = "Connect" THEN "login"
                                ELSE IF r.event.kind = "Resume" THEN "resume"
                                ELSE IF r.event.kind = "None" THEN "done"
                                ELSE "panic",
                         !.ep = r.event.session,
                         !.data = r.event.data]
    /\ UNCHANGED <<cells, proxies, conns, held, client, exVars, qVars>>

\* Event::Connect: login.recv().await returns (nick, resp) once the client has
\* sent (until then the owner is blocked in the await), and the handler runs to
\* its end: server.suspend(nick, |c| resp.send1(c)).
TLogin ==
    /\ owner.pc = "login"
    /\ oneshot_state(cells, owner.ep.cell) = "ready"
    /\ LET r == Recv_recv(cells, owner.ep)
           u == Server_suspend(server, inbox, r.val.n)
           w == Send_send(r.cells, r.cont, ConnVal(u.conn), "end")
       IN /\ server' = u.server
          /\ inbox' = u.inbox
          /\ conns' = conns \cup {u.conn}
          /\ cells' = w.cells
          /\ owner' = [owner EXCEPT !.pc = IF w.ok THEN "free" ELSE "panic",
                                    !.ep = End,
                                    !.fault = IF w.ok THEN "none" ELSE "receiver dropped"]
    /\ UNCHANGED <<proxies, held, event, client, exVars, qVars>>

\* Event::Resume { session, data }: the handler answers with session.send1(data).
TResume ==
    /\ owner.pc = "resume"
    /\ LET w == Send_send(cells, owner.ep, IntVal(owner.data), "end")
       IN /\ cells' = w.cells
          /\ owner' = [owner EXCEPT !.pc = IF w.ok THEN "free" ELSE "panic",
                                    !.ep = End,
                                    !.fault = IF w.ok THEN "none" ELSE "receiver dropped"]
    /\ UNCHANGED <<sVars, client, exVars, qVars>>

\* Client i calls proxy.connect().
TConnect(i) ==
    /\ client[i].pc = "connect"
    /\ LET r == Proxy_connect(cells, inbox)
       IN /\ r.ok
          /\ cells' = r.cells
          /\ inbox' = r.inbox
          /\ held' = held \cup {r.session}
          /\ client' = [client EXCEPT ![i].pc = "login", ![i].ep = r.session]
    /\ proxies' = [proxies EXCEPT !.alive = @ - 1]
    /\ UNCHANGED <<server, conns, event, owner, exVars, qVars>>

\* Client i sends its nick (the clients' nicks differ: client i is nick i) and
\* holds the Recv<Connection> that follows.
TSendNick(i) ==
    /\ client[i].pc = "login"
    /\ LET w == Send_send(cells, client[i].ep, IntVal(i), "recv")
       IN /\ w.ok
          /\ cells' = w.cells
          /\ client' = [client EXCEPT ![i].pc = "await-conn", ![i].ep = w.cont,
                                      ![i].nick = i]
    /\ UNCHANGED <<sVars, owner, exVars, qVars>>

\* Client i, blocked in recv1().await until the server has sent, receives its
\* Connection.
TRecvConn(i) ==
    /\ client[i].pc = "await-conn"
    /\ oneshot_state(cells, client[i].ep.cell) = "ready"
    /\ LET r == Recv_recv(cells, client[i].ep)
       IN /\ cells' = r.cells
          /\ client' = [client EXCEPT ![i].pc = "resume", ![i].ep = End,
                                      ![i].conn = r.val.n]
    /\ UNCHANGED <<sVars, owner, exVars, qVars>>

\* Client i calls resume() on its Connection and holds the session returned.
TClientResume(i) ==
    /\ client[i].pc = "resume"
    /\ \E c \in conns :
         /\ c.id = client[i].conn
         /\ LET r == Connection_resume_as(cells, inbox, c, "recv")
            IN /\ r.ok
               /\ cells' = r.cells
               /\ inbox' = r.inbox
               /\ held' = held \cup {r.session}
               /\ client' = [client EXCEPT ![i].pc = "await-data", ![i].ep = r.session]
         /\ conns' = conns \ {c}
    /\ UNCHANGED <<server, proxies, event, owner, exVars, qVars>>

\* Client i receives the server's answer to its resume and is finished.
TRecvData(i) ==
    /\ client[i].pc = "await-data"
    /\ oneshot_state(cells, client[i].ep.cell) = "ready"
    /\ LET r == Recv_recv(cells, client[i].ep)
       IN /\ cells' = r.cells
          /\ client' = [client EXCEPT ![i].pc = "done", ![i].ep = End,
                                      ![i].got = r.val.n]
    /\ UNCHANGED <<sVars, owner, exVars, qVars>>

NextT ==
    \/ TPollBegin
    \/ TPollEnd
    \/ TLogin
    \/ TResume
    \/ \E i \in DOMAIN client : TConnect(i)
    \/ \E i \in DOMAIN client : TSendNick(i)
    \/ \E i \in DOMAIN client : TRecvConn(i)
    \/ \E i \in DOMAIN client : TClientResume(i)
    \/ \E i \in DOMAIN client : TRecvData(i)

\* Every system built by the construction rules: peers forked as dual pairs and
\* linked, a queue between a producer and a consumer, a server with one polling
\* owner and clients holding one Proxy or Connection each.
NextScoped == NextEx \/ NextQ \/ NextT

ScopedSpec == (InitEx \/ InitQ \/ InitT) /\ [][NextScoped]_vars

\* Every protocol of the system has been carried through to its end.
Finished ==
    /\ \A p \in Peers : peer[p].todo = <<>>
    /\ \A j \in DOMAIN linker : linker[j].done
    /\ prod.pc \in {"idle", "done"}
    /\ cons.pc \in {"idle", "done"} \/ (cons.pc = "closed" /\ cons.cont = End)
    /\ owner.pc \in {"off", "done"}
    /\ \A i \in DOMAIN client : client[i].pc = "done"

TOwnSuspend ==
    /\ owner.pc = "own-suspend"
    /\ server.pc = "idle"
    /\ \E d \in Values :
         LET u == Server_suspend(server, inbox, d)
         IN /\ server' = u.server
            /\ inbox' = u.inbox
            /\ conns' = conns \cup {u.conn}
            /\ owner' = [owner EXCEPT !.pc = "own-resume", !.conn = u.conn.id]
    /\ UNCHANGED <<cells, proxies, held, event, client, exVars, qVars>>

\* The owner calls resume() on the Connection it kept and holds the session.
TOwnResume ==
    /\ owner.pc = "own-resume"
    /\ \E c \in conns :
         /\ c.id = owner.conn
         /\ LET r == Connection_resume_as(cells, inbox, c, "recv")
            IN /\ r.ok
               /\ cells' = r.cells
               /\ inbox' = r.inbox
               /\ held' = held \cup {r.session}
               /\ owner' = [owner EXCEPT !.pc = "free", !.own = r.session]
         /\ conns' = conns \ {c}
    /\ UNCHANGED <<server, proxies, event, client, exVars, qVars>>

\* The owner, between two polls or before the first, calls recv1().await on
\* the session its resume returned.
TOwnWait ==
    /\ owner.pc = "free"
    /\ owner.own # End
    /\ server.pc = "idle"
    /\ owner' = [owner EXCEPT !.pc = "own-wait"]
    /\ UNCHANGED <<cells, sVars, client, exVars, qVars>>

\* The owner's recv1().await on its own session returns.
TOwnRecv ==
    /\ owner.pc = "own-wait"
    /\ oneshot_state(cells, owner.own.cell) = "ready"
    /\ LET r == Recv_recv(cells, owner.own)
       IN /\ cells' = r.cells
          /\ owner' = [owner EXCEPT !.pc = "free", !.own = End, !.got = r.val.n]
    /\ UNCHANGED <<sVars, client, exVars, qVars>>

NextBroken ==
    \/ NextT
    \/ TOwnSuspend
    \/ TOwnResume
    \/ TOwnWait
    \/ TOwnRecv

\* The clients are bystanders of the owner's own resume: one fewer than in the
\* scoped systems.
BrokenClients == MaxClients - 1

BrokenScopeSpec == (\E n \in 1..BrokenClients : InitTasks(n, FALSE)) /\ [][NextBroken]_vars

\* The owner waits on the session of its own resume and nothing has been sent
\* on it.
OwnerWaits ==
    /\ owner.pc = "own-wait"
    /\ oneshot_state(cells, owner.own.cell) = "pending"

\* C18: when the task that owns the Server resumes a Connection of its own and
\* waits on the returned session before a poll has returned the Resume event,
\* the wait never ends: the event is still in the inbox, no poll is under way
\* (only the waiting task polls), and every later state is the same wait.
C18_OwnResumeDeadlock ==
    /\ [](OwnerWaits =>
            /\ server.pc = "idle"
            /\ \E i \in 1..Len(inbox.queue) :
                 /\ inbox.queue[i].kind = "Resume"
                 /\ inbox.queue[i].session = PeerOf(owner.own)
                 /\ inbox.queue[i].id = owner.conn)
    /\ [][OwnerWaits => OwnerWaits']_vars

\* The owner resumed and waited before its first poll; every client has gone as
\* far as it can without the server and no task can take a step, with the
\* Resume and the clients' Connect events unpolled.
C18_Witness ==
    /\ OwnerWaits
    /\ event.kind = "none"
    /\ ~ENABLED NextBroken
    /\ Len(client) = BrokenClients
    /\ \A i \in DOMAIN client : client[i].pc = "await-conn"
    /\ Len(inbox.queue) = BrokenClients + 1

\* ------------------------------------------- server: more claims on the map

\* C21: with every Connection made by this server's suspend and resumed at most
\* once, poll never finds the id of a Resume event missing from the data map:
\* the server is never in the fault "missing connection data", and every Resume
\* still in the inbox has its id in the map and shares it with no other event.
C21_NoMissingData ==
    /\ server.pc # "panic"
    /\ server.fault # "missing connection data"
    /\ \A i \in 1..Len(inbox.queue) :
         inbox.queue[i].kind = "Resume" =>
             /\ inbox.queue[i].id \in DOMAIN server.data
             /\ \A j \in 1..Len(inbox.queue) :
                  (inbox.queue[j].kind = "Resume" /\ inbox.queue[j].id = inbox.queue[i].id)
                      => j = i

\* Both connections were resumed and poll has returned both Resume events, the
\* second one last: the map is empty again and no fault was raised.
C21_Witness ==
    /\ server.next_id = MaxSuspends
    /\ server.data = <<>>
    /\ event.kind = "Resume"
    /\ inbox.queue = <<>>
    /\ conns = {}
    /\ server.fault = "none"
    /\ server.pc = "idle"

\* ------------------------------------------------- queue: f runs in sequence

\* All of a sequence but its last element.
Front(q) == SubSeq(q, 1, Len(q) - 1)

\* C23: in fold (and in for_each, which is fold with the unit accumulator) f
\* runs on one item at a time and in pop order: while f runs on the item popped
\* last, the fold holds no Dequeue and pops nothing, the accumulator is the left
\* fold of the items before it, and outside f it is the left fold of all the
\* items popped; an item is popped only by a fold that is not inside f.
C23_FoldSequential ==
    /\ [](cons.mode = "fold" =>
            IF cons.pc = "f"
            THEN /\ cons.popped # <<>>
                 /\ cons.item = cons.popped[Len(cons.popped)]
                 /\ cons.accum = LeftFold(cons.init, Front(cons.popped))
                 /\ cons.deq = End
                 /\ ~ENABLED QPop
            ELSE cons.accum = LeftFold(cons.init, cons.popped))
    /\ [][(cons.mode = "fold" /\ cons'.popped # cons.popped) =>
            /\ cons.pc = "pop"
            /\ cons'.pc = "f"
            /\ Len(cons'.popped) = Len(cons.popped) + 1]_vars

\* f runs on the first of two different items while the second one is already
\* pushed and the queue closed: the second is not popped yet.
C23_Witness ==
    /\ cons.mode = "fold"
    /\ cons.pc = "f"
    /\ cons.popped = <<1>>
    /\ prod.pushed = <<1, 2>>
    /\ prod.pc # "push"
    /\ cells[cons.rest.cell].msg.tag = "Send"

\* -------------------------------------------------------- duality of types

MaxDepth == 2

\* A session type is the list of its constructors from the outside in, each
\* with the type T of what it carries; () is the empty list.  T may itself be a
\* session type: it is carried, not followed.
Constructors == {"Recv", "Send", "Dequeue", "Enqueue"}
Carried == {"i64", "()", "Recv<i64>"}

RECURSIVE SessionTypes(_)
SessionTypes(n) ==
    IF n = 0 THEN {<<>>}
    ELSE {<<>>} \cup {<<[k |-> k, t |-> t]>> \o S : k \in Constructors, t \in Carried,
                                                S \in SessionTypes(n - 1)}

\* Dual that turns the outermost constructor around and keeps the continuation.
Dual_outermost(S) ==
    IF S = <<>> THEN <<>>
    ELSE <<[k |-> CASE S[1].k = "Recv" -> "Send"
                    [] S[1].k = "Send" -> "Recv"
                    [] S[1].k = "Dequeue" -> "Enqueue"
                    [] S[1].k = "Enqueue" -> "Dequeue",
            t |-> S[1].t]>> \o Tail(S)

\* <S as Session>::Dual, one clause for each impl of Session.
RECURSIVE Dual(_)
Dual(S) ==
    IF S = <<>> THEN <<>>
    ELSE LET T == S[1].t
             rest == Dual(Tail(S))
         IN CASE S[1].k = "Recv" -> <<[k |-> "Send", t |-> T]>> \o rest
              [] S[1].k = "Send" -> <<[k |-> "Recv", t |-> T]>> \o rest
              [] S[1].k = "Dequeue" -> <<[k |-> "Enqueue", t |-> T]>> \o rest
              [] S[1].k = "Enqueue" -> <<[k |-> "Dequeue", t |-> T]>> \o rest

InitTy ==
    \E S \in SessionTypes(MaxDepth) :
        /\ ty = NewType(S)
        /\ cells = <<>>
        /\ peer = [p \in Peers |-> NewPeer(End, <<>>)]
        /\ linker = <<>>
        /\ QueueIdle
        /\ ServerIdle
        /\ TasksIdle

\* type X = Dual<...>: the alias is expanded once more.
TyDual ==
    /\ ty.n < 2
    /\ ty' = [ty EXCEPT !.dual = Dual(@), !.n = @ + 1]
    /\ UNCHANGED <<cells, peer, linker, qVars, sVars, tVars>>

NextTy == TyDual
DualSpec == InitTy /\ [][NextTy]_vars

\* The constructor the claim pairs with each constructor.
OtherSide(k) ==
    CASE k = "Recv" -> "Send"
      [] k = "Send" -> "Recv"
      [] k = "Dequeue" -> "Enqueue"
      [] k = "Enqueue" -> "Dequeue"

\* C26: Dual(End) = End, the Dual of each of Recv, Send, Dequeue and Enqueue is
\* the constructor of the other side with the same T and the Dual of the
\* continuation, and the Dual of the Dual of a type is the type.
C26_DualInvolution ==
    /\ ty.n = 1 =>
         /\ Len(ty.dual) = Len(ty.of)
         /\ \A i \in 1..Len(ty.of) :
              /\ ty.dual[i].k = OtherSide(ty.of[i].k)
              /\ ty.dual[i].t = ty.of[i].t
         /\ ty.of # <<>> => Tail(ty.dual) = Dual(Tail(ty.of))
    /\ ty.n = 2 => ty.dual = ty.of

\* Dual<Dual<Dequeue<i64, Send<Recv<i64>>>>> has been expanded.
C26_Witness ==
    /\ ty.n = 2
    /\ ty.of = <<[k |-> "Dequeue", t |-> "i64"], [k |-> "Send", t |-> "Recv<i64>"]>>
    /\ ty.dual = ty.of

\* ------------------------------------------------------------- fork_sync

\* The session types forked: (), and the protocols from either side.
ForkProtos == {<<>>} \cup Protocols \cup {DualProto(p) : p \in Protocols}

\* The kind of a session type.
KindOf(proto) == IF proto = <<>> THEN "end" ELSE proto[1]

\* The functions given to fork_sync, by what they do with the dual: with
\* sync = 1 the function first sends v on it, as in `|sender| sender.send1(7)`;
\* then it spawns a task that goes on with what is left of the session.
Closures(proto) ==
    {[sync |-> 0, v |-> 0]} \cup
    (IF KindOf(proto) = "recv" THEN {[sync |-> 1, v |-> v] : v \in Values} ELSE {})

\* The caller of fork_sync(f): a peer that has no endpoint until fork_sync
\* returns.  pc is its position in fork_sync, `ret` the endpoint fork_sync will
\* return, `handed` what f was called with, `calls` how often f was called.
NewForker(proto, f) ==
    [ep |-> End, proto |-> proto, todo |-> <<>>, sent |-> <<>>, rcvd |-> <<>>,
     fwd |-> 0, hops |-> <<>>, lead |-> <<>>, fault |-> "none",
     pc |-> "call", f |-> f, ret |-> End, handed |-> End, calls |-> 0]

\* A function that leaves its send to the task it spawns.
Closure_call_deferred(cs, f, dual, dproto) ==
    [cells |-> cs, ep |-> dual, todo |-> dproto, sent |-> <<>>]

\* f(dual): the body of the function, run to its end.  ep / todo are what the
\* spawned task starts with.
Closure_call(cs, f, dual, dproto) ==
    IF f.sync = 1
    THEN LET r == Send_send(cs, dual, IntVal(f.v), ContKind(dproto))
         IN [cells |-> r.cells, ep |-> r.cont, todo |-> Tail(dproto), sent |-> <<f.v>>]
    ELSE [cells |-> cs, ep |-> dual, todo |-> dproto, sent |-> <<>>]

InitFork ==
    \E proto \in ForkProtos : \E f \in Closures(proto) :
        /\ cells = <<>>
        /\ peer = [p \in Peers |-> IF p = "X" THEN NewForker(proto, f)
                                   ELSE NewPeer(End, <<>>)]
        /\ linker = <<>>
        /\ ty = NewType(<<>>)
        /\ QueueIdle
        /\ ServerIdle
        /\ TasksIdle

\* let (recv, send) = endpoints(); f is called with the dual.
FkCall ==
    /\ peer["X"].pc = "call"
    /\ LET r == fork_sync(KindOf(peer["X"].proto), cells)
       IN /\ cells' = r.cells
          /\ peer' = [peer EXCEPT !["X"].pc = "in-f",
                                  !["X"].ret = r.self,
                                  !["X"].handed = r.dual,
                                  !["X"].calls = @ + 1]
    /\ UNCHANGED <<linker, ty, qVars, sVars, tVars>>

\* f runs to its end; the task it spawned is Y.
FkBody ==
    /\ peer["X"].pc = "in-f"
    /\ LET x == peer["X"]
           r == Closure_call(cells, x.f, x.handed, DualProto(x.proto))
       IN /\ cells' = r.cells
          /\ peer' = [peer EXCEPT !["X"].pc = "f-done",
                                  !["Y"].ep = r.ep,
                                  !["Y"].proto = DualProto(x.proto),
                                  !["Y"].todo = r.todo,
                                  !["Y"].sent = r.sent]
    /\ UNCHANGED <<linker, ty, qVars, sVars, tVars>>

\* fork_sync returns its own endpoint.
FkReturn ==
    /\ peer["X"].pc = "f-done"
    /\ peer' = [peer EXCEPT !["X"].pc = "ret",
                            !["X"].ep = peer["X"].ret,
                            !["X"].todo = peer["X"].proto]
    /\ UNCHANGED <<cells, linker, ty, qVars, sVars, tVars>>

NextFork ==
    \/ FkCall
    \/ FkBody
    \/ FkReturn
    \/ \E p \in Peers : ExSend(p)
    \/ \E p \in Peers : ExPark(p)
    \/ \E p \in Peers : ExRecv(p)

ForkSpec == InitFork /\ [][NextFork]_vars

\* C24: fork_sync calls f once, with the other half of the endpoint it returns;
\* it goes from the call through all of f to the return without ever waiting;
\* the caller has no endpoint before the return, and at the return what f sent
\* is in the cell, so the first recv of the caller never parks.
C24_ForkSync ==
    /\ [](LET x == peer["X"]
          IN /\ x.calls = IF x.pc = "call" THEN 0 ELSE 1
             /\ x.pc # "call" =>
                  /\ x.ret.kind = KindOf(x.proto)
                  /\ x.handed = PeerOf(x.ret)
             /\ x.pc = "call" => ENABLED FkCall
             /\ x.pc = "in-f" => ENABLED FkBody
             /\ x.pc = "f-done" => ENABLED FkReturn
             /\ x.pc # "ret" => x.ep = End /\ ~Running("X")
             /\ x.pc \in {"f-done", "ret"} => peer["Y"].proto = DualProto(x.proto)
             /\ (x.pc \in {"f-done", "ret"} /\ x.f.sync = 1) =>
                  /\ peer["Y"].sent # <<>>
                  /\ peer["Y"].sent[1] = x.f.v
                  /\ cells[x.ret.cell].deposits = 1
                  /\ ~cells[x.ret.cell].parked
                  /\ x.rcvd = <<>> => /\ oneshot_state(cells, x.ret.cell) = "ready"
                                      /\ cells[x.ret.cell].msg.val = IntVal(x.f.v)
                  /\ x.rcvd # <<>> => x.rcvd[1] = x.f.v)
    /\ [][peer'["X"].pc # peer["X"].pc =>
            <<peer["X"].pc, peer'["X"].pc>> \in
                {<<"call", "in-f">>, <<"in-f", "f-done">>, <<"f-done", "ret">>}]_vars

\* Recv::fork_sync(|sender| ..sender.send(2)..) has returned a Recv<i64, Send<i64>>;
\* the caller received the 2 on it and then sent a 1 that the spawned task got.
C24_Witness ==
    /\ peer["X"].pc = "ret"
    /\ peer["X"].f = [sync |-> 1, v |-> 2]
    /\ peer["X"].proto = <<"recv", "send">>
    /\ peer["X"].rcvd = <<2>>
    /\ peer["Y"].rcvd = <<1>>

\* ---------------------------------------------------------------- choose

\* A variant of an enum holding a session: `n` names the variant.
Variant(n, session) == [tag |-> "variant", n |-> n, s |-> session]

\* choose returning the half that it also sends.
Send_choose_same_half(cs, self, inject, kind) ==
    LET f == fork_sync(kind, cs)
        r == Send_send(f.cells, self, Variant(inject, f.self), "end")
    IN [ok |-> r.ok, cells |-> r.cells, cont |-> f.self]

\* Send::choose(self, choice) -> S::Dual, where `kind` is the kind of S::Dual:
\* S::Dual::fork_sync(|session| self.send1(choice(session))).
Send_choose(cs, self, inject, kind) ==
    LET f == fork_sync(kind, cs)
        r == Send_send(f.cells, self, Variant(inject, f.dual), "end")
    IN [ok |-> r.ok, cells |-> r.cells, cont |-> f.self]

\* X holds a Send<Enum> and will choose variant `inject`, whose session is the
\* dual of `proto`; Y holds the Recv<Enum> and matches on what it receives.
\* ret / got / branch are history: the endpoint choose returned, the session
\* and the variant Y found.
NewChooser(ep, proto, inject) ==
    [ep |-> ep, proto |-> proto, todo |-> <<>>, sent |-> <<>>, rcvd |-> <<>>,
     fwd |-> 0, hops |-> <<>>, lead |-> <<>>, fault |-> "none",
     pc |-> "choose", inject |-> inject, ret |-> End, got |-> End, branch |-> 0]

NewOfferer(ep, proto) ==
    [ep |-> ep, proto |-> proto, todo |-> <<>>, sent |-> <<>>, rcvd |-> <<>>,
     fwd |-> 0, hops |-> <<>>, lead |-> <<>>, fault |-> "none",
     pc |-> "offer", inject |-> 0, ret |-> End, got |-> End, branch |-> 0]

InitChoose ==
    \E proto \in ForkProtos, inject \in Values :
        /\ cells = <<NewCell>>
        /\ peer = [p \in Peers |-> IF p = "X" THEN NewChooser(SendEp(1), proto, inject)
                                   ELSE NewOfferer(RecvEp(1), DualProto(proto))]
        /\ linker = <<>>
        /\ ty = NewType(<<>>)
        /\ QueueIdle
        /\ ServerIdle
        /\ TasksIdle

\* X calls choose and goes on with the returned endpoint.
ExChoose ==
    /\ peer["X"].pc = "choose"
    /\ LET x == peer["X"]
           r == Send_choose(cells, x.ep, x.inject, KindOf(x.proto))
       IN IF r.ok
          THEN /\ cells' = r.cells
               /\ peer' = [peer EXCEPT !["X"].pc = "chosen",
                                       !["X"].ep = r.cont,
                                       !["X"].ret = r.cont,
                                       !["X"].todo = x.proto]
          ELSE /\ cells' = cells
               /\ peer' = [peer EXCEPT !["X"].fault = "receiver dropped"]
    /\ UNCHANGED <<linker, ty, qVars, sVars, tVars>>

\* Y is inside recv1() and the cell is still empty.
ExOfferPark ==
    /\ peer["Y"].pc = "offer"
    /\ oneshot_state(cells, peer["Y"].ep.cell) = "pending"
    /\ ~cells[peer["Y"].ep.cell].parked
    /\ cells' = oneshot_park(cells, peer["Y"].ep.cell)
    /\ UNCHANGED <<exVars, qVars, sVars, tVars>>

\* match recv1().await { Variant(session) => .. }: Y goes on with the session.
ExOffer ==
    /\ peer["Y"].pc = "offer"
    /\ oneshot_state(cells, peer["Y"].ep.cell) = "ready"
    /\ LET r == Recv_recv(cells, peer["Y"].ep)
       IN /\ cells' = r.cells
          /\ peer' = [peer EXCEPT !["Y"].pc = "matched",
                                  !["Y"].ep = r.val.s,
                                  !["Y"].got = r.val.s,
                                  !["Y"].branch = r.val.n,
                                  !["Y"].todo = peer["Y"].proto]
    /\ UNCHANGED <<linker, ty, qVars, sVars, tVars>>

NextChoose ==
    \/ ExChoose
    \/ ExOfferPark
    \/ ExOffer
    \/ \E p \in Peers : ExSend(p)
    \/ \E p \in Peers : ExPark(p)
    \/ \E p \in Peers : ExRecv(p)

ChooseSpec == InitChoose /\ [][NextChoose]_vars

\* C25: choose(inject) returns an endpoint of the kind of Dual(S) and has by then
\* deposited inject(s) for the peer, s being the other half of the returned
\* endpoint; the peer finds exactly that variant and that s, and what either
\* side sends afterwards on its endpoint is what the other receives, in order.
C25_ChooseIsFork ==
    LET x == peer["X"]
        y == peer["Y"]
    IN /\ x.pc = "chosen" =>
            /\ x.ret.kind = KindOf(x.proto)
            /\ cells[1].deposits = 1
            /\ y.pc = "offer" =>
                 /\ oneshot_state(cells, 1) = "ready"
                 /\ cells[1].msg = ExchangeSend(Variant(x.inject, PeerOf(x.ret)), End)
       /\ y.pc = "matched" =>
            /\ x.pc = "chosen"
            /\ y.branch = x.inject
            /\ y.got = PeerOf(x.ret)
       /\ x.fault = "none" /\ y.fault = "none"
       /\ IsPrefix(y.rcvd, x.sent)
       /\ IsPrefix(x.rcvd, y.sent)
       /\ (x.pc = "chosen" /\ y.pc = "matched" /\ ~ENABLED NextChoose) =>
            /\ x.todo = <<>> /\ y.todo = <<>>
            /\ y.rcvd = x.sent /\ x.rcvd = y.sent

\* choose(More).send(2) followed by a receive of 1: the peer matched More, got
\* the 2 and its 1 came back on the endpoint choose returned.
C25_Witness ==
    /\ peer["X"].pc = "chosen"
    /\ peer["Y"].pc = "matched"
    /\ peer["Y"].branch = 2
    /\ peer["X"].proto = <<"send", "recv">>
    /\ peer["Y"].rcvd = <<2>>
    /\ peer["X"].rcvd = <<1>>

\* ------------------------------------------- queue: the recursive pattern

\* The hand-written enum Queue<T, S> of the module docs, as its variants are
\* numbered here: 0 is Closed, an item n >= 1 is the closure |deq| Item(n, deq).
QueueOf(val) ==
    IF val.tag # "variant" THEN val
    ELSE IF val.n = 0 THEN QueueClosed(val.s) ELSE QueueItem(val.n, val.s)

\* A heap with every variant read as a value of the enum Queue.
AsQueueCells(cs) == [i \in DOMAIN cs |-> [cs[i] EXCEPT !.msg.val = QueueOf(@)]]

\* On the naked Enqueue = Send<Queue<T, Dual<S>>>: enq.choose(|deq| Item(item, deq))
\* returns the Dual of Recv<Queue>, a Send<Queue>.
Naked_push(cs, self, item) ==
    LET r == Send_choose(cs, self, item, "send")
    IN [ok |-> r.ok, cells |-> AsQueueCells(r.cells), enq |-> r.cont]

\* enq.choose(Queue::Closed) returns the Dual of the session inside Closed.
Naked_close(cs, self, kind) ==
    LET r == Send_choose(cs, self, 0, kind)
    IN [ok |-> r.ok, cells |-> AsQueueCells(r.cells), cont |-> r.cont]

\* On the naked Dequeue = Recv<Queue<T, S>>: deq.recv1().
Naked_pop(cs, self) == Recv_recv(cs, self)

\* The steps (pushes and the close) the producer has made.
QueueSteps == Len(prod.pushed) + (IF prod.pc \in {"recv", "done"} THEN 1 ELSE 0)

\* C27: in every state of the queue run, push, close and pop do to the heap and
\* return exactly what choose(Item), choose(Closed) and recv1 of the recursive
\* pattern do, so both deliver the same items in the same order and the same
\* continuation; each step is carried by one cell that is used once, and there
\* is no cell besides these and the one of the continuation.
C27_QueueIsNaked ==
    /\ prod.pc = "push" =>
         /\ \A v \in Values :
              Enqueue_push(cells, prod.enq, v) = Naked_push(cells, prod.enq, v)
         /\ Enqueue_close(cells, prod.enq, prod.kind) = Naked_close(cells, prod.enq, prod.kind)
    /\ (cons.pc = "pop" /\ oneshot_state(cells, cons.deq.cell) = "ready") =>
         Dequeue_pop(cells, cons.deq) = Naked_pop(cells, cons.deq)
    /\ prod.fault = "none"
    /\ \A i \in 1..Len(cells) : cells[i].deposits <= 1
    /\ \A i \in 1..QueueSteps :
         /\ cells[i].deposits = 1
         /\ i <= Len(prod.pushed) =>
              /\ cells[i].takes = 0 => cells[i].msg.val = QueueItem(prod.pushed[i], RecvEp(i + 1))
              /\ cells[i].takes = 1 => cons.popped[i] = prod.pushed[i]
    /\ Len(cells) = 1 + Len(prod.pushed)
                    + (IF prod.pc \in {"recv", "done"} /\ prod.kind # "end" THEN 1 ELSE 0)

\* Two items pushed and the queue closed with a continuation, all of it popped:
\* three cells carried the three steps, the fourth is the continuation's.
C27_Witness ==
    /\ prod.pushed = <<2, 1>>
    /\ cons.popped = <<2, 1>>
    /\ prod.kind = "recv"
    /\ cons.pc \in {"closed", "done"}
    /\ cons.nclosed = 1
    /\ Len(cells) = 4
    /\ \A i \in 1..3 : cells[i].takes = 1

\* ------------------------------------------------- server: dropped Server

\* Every session in the queued messages is dropped.
RECURSIVE DropSessions(_, _)
DropSessions(cs, q) ==
    IF q = <<>> THEN cs ELSE DropSessions(DropEp(cs, Head(q).session), Tail(q))

\* drop(server): its Sender, its Receiver and its data go.  The Receiver closes
\* the channel and drops what is queued, each message with the Sender and the
\* session in it.
Server_drop(srv, ch, cs) ==
    [server |-> [srv EXCEPT !.pc = "dropped", !.sender = FALSE, !.data = <<>>],
     inbox |-> [queue |-> <<>>,
                num_senders |-> ch.num_senders - 1 - Len(ch.queue),
                rx |-> FALSE],
     cells |-> DropSessions(cs, ch.queue)]

\* The owner drops the Server it holds between two polls.
SrvDrop ==
    /\ server.pc = "idle"
    /\ LET r == Server_drop(server, inbox, cells)
       IN /\ server' = r.server
          /\ inbox' = r.inbox
          /\ cells' = r.cells
    /\ UNCHANGED <<proxies, conns, held, event, exVars, qVars, tVars>>

\* A client task that panicked inside connect or resume.
Panicked(via, msg) == [pc |-> "panic", via |-> via, fault |-> msg]

\* A holder of a Proxy calls connect and try_send returns Err: the expect panics.
CliConnectFault ==
    /\ proxies.alive > 0
    /\ LET r == Proxy_connect(cells, inbox)
       IN /\ ~r.ok
          /\ cells' = r.cells
          /\ inbox' = r.inbox
          /\ held' = IF r.session = End THEN held ELSE held \cup {r.session}
    /\ proxies' = [proxies EXCEPT !.alive = @ - 1]
    /\ client' = Append(client, Panicked("connect", "server dropped"))
    /\ UNCHANGED <<server, conns, event, owner, exVars, qVars>>

\* The holder of Connection c calls resume and try_send returns Err.
CliResumeFault(c) ==
    /\ c \in conns
    /\ LET r == Connection_resume(cells, inbox, c)
       IN /\ ~r.ok
          /\ cells' = r.cells
          /\ inbox' = r.inbox
          /\ held' = IF r.session = End THEN held ELSE held \cup {r.session}
    /\ conns' = conns \ {c}
    /\ client' = Append(client, Panicked("resume", "server dropped"))
    /\ UNCHANGED <<server, proxies, event, owner, exVars, qVars>>

NextDropped ==
    \/ NextS
    \/ SrvDrop
    \/ CliConnectFault
    \/ \E c \in conns : CliResumeFault(c)

ServerDropSpec == InitS /\ [][NextDropped]_vars

\* C22: once the Server is dropped its inbox has no receiver and holds nothing;
\* from then on no connect and no resume succeeds, each one that is called
\* panics with "server dropped" and returns no session, and no event reaches
\* the inbox or the owner.  No client panics while the Server is there.
C22_ServerDropped ==
    /\ [](/\ inbox.rx <=> server.pc \notin {"dropped", "done"}
          /\ server.pc = "done" => proxies.alive = 0 /\ conns = {}
          /\ client # <<>> => server.pc = "dropped"
          /\ \A i \in DOMAIN client : client[i].fault = "server dropped"
          /\ server.pc = "dropped" =>
               /\ inbox.queue = <<>>
               /\ ~ENABLED CliConnect
               /\ \A c \in conns : ~ENABLED CliResume(c) /\ ENABLED CliResumeFault(c)
               /\ proxies.alive > 0 => ENABLED CliConnectFault)
    /\ [][server.pc = "dropped" =>
            /\ server' = server
            /\ event' = event
            /\ held' = held
            /\ inbox'.queue = <<>>]_vars

\* After the drop one client panicked in connect and one in resume, with a
\* session from before the drop still held.
C22_Witness ==
    /\ server.pc = "dropped"
    /\ \E i, j \in DOMAIN client : client[i].via = "connect" /\ client[j].via = "resume"
    /\ held # {}
    /\ \E i \in 1..Len(cells) : cells[i].txDropped /\ cells[i].rxDropped

\* ------------------------------------------------------------------- chat

\* Most requests the users make of the chat server: the logins they try and the
\* messages they send.
ChatRequests == MaxSuspends + 1

\* The names user i may give: the name everybody likes, and for the second
\* user also one of its own.
ChatNicks(i) == IF i = 2 THEN {1, 2} ELSE {1}

\* enum ChatLine { Message { from, content }, Info(String), Error(String) }
LineMessage(from, content) ==
    [line |-> "Message", text |-> "", nick |-> from, content |-> content]
LineInfo(text, nick) == [line |-> "Info", text |-> text, nick |-> nick, content |-> 0]
LineError(text) == [line |-> "Error", text |-> text, nick |-> 0, content |-> 0]

\* Err(LoginRefused), Command::Logout and None, the variants without a session,
\* and an Inbox travelling as a value.
ErrRefused == [tag |-> "LoginRefused", n |-> 0, s |-> End]
CommandLogout == [tag |-> "Logout", n |-> 0, s |-> End]
OptionNone == [tag |-> "None", n |-> 0, s |-> End]
InboxVal(enq) == [tag |-> "inbox", n |-> 0, s |-> enq]

\* The lines of an inbox: what has been pushed from its cell `c` on.
RECURSIVE InboxLines(_, _)
InboxLines(cs, c) ==
    IF cs[c].msg.tag = "Send" /\ cs[c].msg.val.tag = "item"
    THEN <<cs[c].msg.val.n>> \o InboxLines(cs, cs[c].msg.val.s.cell)
    ELSE <<>>

\* inboxes.drain().map(|(nick, inbox)| (nick, inbox.push(line.clone()))) over
\* the entries `todo`, then inboxes.extend(entries).  The order of a HashMap's
\* drain is not fixed; the pushes go to different queues, so the orders differ
\* only in which cell each queue gets, and one order is taken.
RECURSIVE broadcast_to(_, _, _, _)
broadcast_to(cs, inboxes, todo, line) ==
    IF todo = {} THEN [cells |-> cs, inboxes |-> inboxes]
    ELSE LET nick == CHOOSE k \in todo : \A j \in todo : k <= j
             r == Enqueue_push(cs, inboxes[nick], line)
         IN broadcast_to(r.cells, [inboxes EXCEPT ![nick] = r.enq], todo \ {nick}, line)

\* broadcast that leaves out one of the inboxes.
broadcast_but_one(cs, inboxes, line) ==
    broadcast_to(cs, inboxes,
                 DOMAIN inboxes \ {CHOOSE k \in DOMAIN inboxes : \A j \in DOMAIN inboxes : k <= j},
                 line)

\* fn broadcast(inboxes: &mut Inboxes, line: ChatLine)
broadcast(cs, inboxes, line) == broadcast_to(cs, inboxes, DOMAIN inboxes, line)

\* Recv::recv for as long as it does not have to wait: the turns of its loop
\* through the cells that are ready.
RECURSIVE Recv_recv_ready(_, _)
Recv_recv_ready(cs, self) ==
    LET r == Recv_recv(cs, self)
    IN IF r.done \/ oneshot_state(r.cells, r.self.cell) # "ready" THEN r
       ELSE Recv_recv_ready(r.cells, r.self)

\* The handler is at its end and the loop calls poll again, which releases the
\* server's own Sender before it waits.
NextPoll(srv, ch) == Server_poll_release([srv EXCEPT !.pc = "idle"], ch)

\* A login that finds every entry vacant.
Entry_vacant_always(inboxes, nick) == TRUE

\* let Entry::Vacant(entry) = inboxes.entry(nick.clone())
Entry_vacant(inboxes, nick) == nick \notin DOMAIN inboxes

\* The task running serve: the owner of the Server with its inboxes map and the
\* nick of the login or command it is handling.  `admitted` is history: each
\* broadcast line with the nicks it went to and, for a join, the cell of the
\* Inbox that was inserted.
NewServe ==
    [pc |-> "free", ep |-> End, data |-> 0, conn |-> 0, own |-> End, got |-> 0,
     fault |-> "none", inboxes |-> <<>>, nick |-> 0, admitted |-> <<>>]

Admitted(line, to, cell) == [line |-> line, to |-> to, cell |-> cell]

\* The task of handle_user, after its push of "What's your name?", together
\* with the task spawned in serve that awaits its login on `acc` and runs as
\* soon as the login is there.  inbox is the Enqueue it holds; first / gave /
\* result / said are history: the first cell of its inbox, the cell of the
\* Enqueue it gave to the server, how its login ended, how many messages it
\* sent.
NewUser(enq, first, try, acc) ==
    [pc |-> "name", ep |-> End, nick |-> 0, conn |-> 0, got |-> 0,
     inbox |-> enq, first |-> first, gave |-> 0, try |-> try,
     acc |-> acc, result |-> "none", said |-> 0]

\* handle_user for each of n sockets: handle_inbox forks the inbox, the user
\* task pushes its first line, and the fork of the task itself makes the pair
\* of Option<Login>.
RECURSIVE ChatUsers(_)
ChatUsers(n) ==
    IF n = 0 THEN [cells |-> <<>>, users |-> <<>>]
    ELSE LET prev == ChatUsers(n - 1)
             q == fork_sync("send", prev.cells)
             a == Enqueue_push(q.cells, q.self, LineInfo("What's your name?", 0))
             t == fork_sync("recv", a.cells)
         IN [cells |-> t.cells,
             users |-> Append(prev.users, NewUser(a.enq, q.dual.cell, t.dual, t.self))]

\* serve has started the server; the accepting task holds the first Proxy for
\* good, so that poll never returns None, and has cloned it once for each of
\* the n users.
InitChat ==
    \E n \in 1..MaxClients :
        /\ server = [Server_start.server EXCEPT !.pc = "idle"]
        /\ inbox = ProxiesFor(n + 1).inbox
        /\ proxies = ProxiesFor(n + 1).proxies
        /\ conns = {}
        /\ held = {}
        /\ event = NoEvent
        /\ cells = ChatUsers(n).cells
        /\ owner = NewServe
        /\ client = ChatUsers(n).users
        /\ ExchangeIdle
        /\ QueueIdle

\* The requests the first n users have made.
RECURSIVE Requests(_)
Requests(n) ==
    IF n = 0 THEN 0
    ELSE (IF client[n].pc \in {"name", "gone"} THEN 0 ELSE 1) + client[n].said
         + Requests(n - 1)

\* The socket of user i delivers a name: try_login.choose(Some).send(Nick(name)),
\* and the task waits for the result.  The task spawned for this user finds
\* Some(login) and does proxy.connect().link(login).
UName(i) ==
    /\ client[i].pc = "name"
    /\ Requests(Len(client)) < ChatRequests
    /\ \E name \in ChatNicks(i) :
         LET c == Send_choose(cells, client[i].try, 1, "send")
             w == Send_send(c.cells, c.cont, IntVal(name), "recv")
             r == Recv_recv(w.cells, client[i].acc)
             k == Proxy_connect(r.cells, inbox)
             l == Send_link(k.cells, k.session, r.val.s)
         IN /\ c.ok /\ w.ok /\ k.ok /\ l.ok
            /\ cells' = l.cells
            /\ inbox' = k.inbox
            /\ client' = [client EXCEPT ![i].pc = "await-result", ![i].ep = w.cont,
                                        ![i].try = End, ![i].acc = End, ![i].nick = name]
    /\ proxies' = [proxies EXCEPT !.alive = @ - 1]
    /\ UNCHANGED <<server, conns, held, event, owner, exVars, qVars>>

\* The socket of user i closes before a name came: inbox.close1() and
\* try_login.send1(None).  The task spawned for this user finds None and
\* returns, which drops its Proxy.
UGone(i) ==
    /\ client[i].pc = "name"
    /\ LET c == Enqueue_close(cells, client[i].inbox, "end")
           w == Send_send(c.cells, client[i].try, OptionNone, "end")
           r == Recv_recv(w.cells, client[i].acc)
       IN /\ c.ok /\ w.ok
          /\ cells' = r.cells
          /\ client' = [client EXCEPT ![i].pc = "gone", ![i].try = End, ![i].acc = End,
                                      ![i].inbox = End]
    /\ inbox' = mpsc_drop(inbox)
    /\ proxies' = [proxies EXCEPT !.alive = @ - 1]
    /\ UNCHANGED <<server, conns, held, event, owner, exVars, qVars>>

\* while let Some(event) = server.poll().await, once the inbox is not pending;
\* the handler of the event goes on in the same step up to its first await
\* that has to wait, since what it awaits was sent before the event.
Polled == Server_poll_ready(server, inbox)

\* Event::Connect: login.recv().await returns (nick, resp), through the link
\* that connect().link(login) made.  A taken nick is refused with
\* resp.send1(Err(LoginRefused)) and the loop polls again; else resp.choose(Ok)
\* and the handler waits for the user's inbox.
ChatLogin ==
    /\ owner.pc = "free"
    /\ server.pc = "polling"
    /\ mpsc_next(inbox) = "some"
    /\ Polled.event.kind = "Connect"
    /\ oneshot_state(cells, Polled.event.session.cell) = "ready"
    /\ LET r == Recv_recv_ready(cells, Polled.event.session)
           nick == r.val.n
           w == Send_send(r.cells, r.cont, ErrRefused, "end")
           c == Send_choose(r.cells, r.cont, 1, "recv")
           p == NextPoll(Polled.server, Polled.inbox)
       IN /\ r.done
          /\ IF Entry_vacant(owner.inboxes, nick)
             THEN /\ c.ok
                  /\ cells' = c.cells
                  /\ owner' = [owner EXCEPT !.pc = "await-inbox", !.ep = c.cont,
                                            !.nick = nick]
                  /\ server' = Polled.server
                  /\ inbox' = Polled.inbox
             ELSE /\ w.ok
                  /\ cells' = w.cells
                  /\ owner' = [owner EXCEPT !.pc = "free", !.ep = End]
                  /\ server' = p.server
                  /\ inbox' = p.inbox
    /\ event' = Polled.event
    /\ UNCHANGED <<proxies, conns, held, client, exVars, qVars>>

\* (inbox, conn) arrives: entry.insert(inbox), broadcast of "joined" and
\* server.suspend(nick, |c| conn.send1(c)).
ChatInbox ==
    /\ owner.pc = "await-inbox"
    /\ oneshot_state(cells, owner.ep.cell) = "ready"
    /\ LET r == Recv_recv(cells, owner.ep)
           ins == MapInsert(owner.inboxes, owner.nick, r.val.s)
           line == LineInfo("joined", owner.nick)
           b == broadcast(r.cells, ins, line)
           u == Server_suspend(server, inbox, owner.nick)
           w == Send_send(b.cells, r.cont, ConnVal(u.conn), "end")
           p == NextPoll(u.server, u.inbox)
       IN /\ w.ok
          /\ cells' = w.cells
          /\ server' = p.server
          /\ inbox' = p.inbox
          /\ conns' = conns \cup {u.conn}
          /\ owner' = [owner EXCEPT
                         !.pc = "free", !.ep = End, !.inboxes = b.inboxes,
                         !.admitted = Append(@, Admitted(line, DOMAIN ins, r.val.s.cell))]
    /\ UNCHANGED <<proxies, held, event, client, exVars, qVars>>

\* Event::Resume { session: outbox, data: nick }: outbox.recv1().await returns
\* the command.  On Logout the inbox of the nick is removed and closed and
\* "left" is broadcast; on Message(msg), msg.recv().await returns (content,
\* conn), the message is broadcast and server.suspend(nick, |c| conn.send1(c))
\* keeps the connection.  Then the loop polls again.
ChatResume ==
    /\ owner.pc = "free"
    /\ server.pc = "polling"
    /\ mpsc_next(inbox) = "some"
    /\ Polled.event.kind = "Resume"
    /\ oneshot_state(cells, Polled.event.session.cell) = "ready"
    /\ LET r == Recv_recv(cells, Polled.event.session)
           nick == Polled.event.data
           has == nick \in DOMAIN owner.inboxes
           c == IF has THEN Enqueue_close(r.cells, owner.inboxes[nick], "end")
                ELSE [ok |-> TRUE, cells |-> r.cells, cont |-> End]
           rem == MapRemove(owner.inboxes, nick)
           left == LineInfo("left", nick)
           bl == broadcast(c.cells, rem, left)
           m == Recv_recv(r.cells, r.val.s)
           said == LineMessage(nick, m.val.n)
           bm == broadcast(m.cells, owner.inboxes, said)
           u == Server_suspend(Polled.server, Polled.inbox, nick)
           w == Send_send(bm.cells, m.cont, ConnVal(u.conn), "end")
           pl == NextPoll(Polled.server, Polled.inbox)
           pm == NextPoll(u.server, u.inbox)
       IN IF r.val.tag = "variant"
          THEN /\ oneshot_state(r.cells, r.val.s.cell) = "ready"
               /\ w.ok
               /\ cells' = w.cells
               /\ server' = pm.server
               /\ inbox' = pm.inbox
               /\ conns' = conns \cup {u.conn}
               /\ owner' = [owner EXCEPT
                              !.nick = nick, !.data = nick,
                              !.inboxes = bm.inboxes,
                              !.admitted = Append(@, Admitted(said, DOMAIN owner.inboxes, 0))]
          ELSE /\ c.ok
               /\ cells' = bl.cells
               /\ server' = pl.server
               /\ inbox' = pl.inbox
               /\ conns' = conns
               /\ owner' = [owner EXCEPT
                              !.nick = nick, !.data = nick,
                              !.inboxes = bl.inboxes,
                              !.admitted = Append(@, Admitted(left, DOMAIN rem, 0))]
    /\ event' = Polled.event
    /\ UNCHANGED <<proxies, held, client, exVars, qVars>>

\* The result of the login arrives at user i: on Err it pushes "Login refused"
\* and closes its inbox, on Ok(accepted) it sends the inbox and waits for the
\* Connection.
UResult(i) ==
    /\ client[i].pc = "await-result"
    /\ oneshot_state(cells, client[i].ep.cell) = "ready"
    /\ LET r == Recv_recv(cells, client[i].ep)
           p == Enqueue_push(r.cells, client[i].inbox, LineError("Login refused"))
           c == Enqueue_close(p.cells, p.enq, "end")
           w == Send_send(r.cells, r.val.s, InboxVal(client[i].inbox), "recv")
       IN IF r.val.tag = "variant"
          THEN /\ w.ok
               /\ cells' = w.cells
               /\ client' = [client EXCEPT ![i].pc = "await-conn", ![i].ep = w.cont,
                                           ![i].gave = client[i].inbox.cell,
                                           ![i].inbox = End, ![i].result = "ok"]
          ELSE /\ p.ok /\ c.ok
               /\ cells' = c.cells
               /\ client' = [client EXCEPT ![i].pc = "refused", ![i].ep = End,
                                           ![i].inbox = End, ![i].result = "refused"]
    /\ UNCHANGED <<sVars, owner, exVars, qVars>>

\* User i has its Connection, from recv1().await after the login or after its
\* last message: the turn of its loop that ends the wait is taken together with
\* what the socket brings next, as no other task reads the cell it empties.
Connection_of(cs, self) ==
    LET r == Recv_recv(cs, self)
    IN [cells |-> r.cells, id |-> r.val.n]

\* The socket of user i delivers a message:
\* conn.resume().choose(Command::Message).send(content), then recv1().await.
USay(i) ==
    /\ client[i].pc = "await-conn"
    /\ oneshot_state(cells, client[i].ep.cell) = "ready"
    /\ Requests(Len(client)) < ChatRequests
    /\ \E c \in conns :
         /\ c.id = Connection_of(cells, client[i].ep).id
         /\ LET r == Connection_resume_as(Connection_of(cells, client[i].ep).cells,
                                          inbox, c, "send")
                m == Send_choose(r.cells, r.session, 1, "send")
                w == Send_send(m.cells, m.cont, IntVal(client[i].said + 1), "recv")
            IN /\ r.ok /\ m.ok /\ w.ok
               /\ cells' = w.cells
               /\ inbox' = r.inbox
               /\ client' = [client EXCEPT ![i].ep = w.cont, ![i].conn = c.id,
                                           ![i].said = @ + 1]
         /\ conns' = conns \ {c}
    /\ UNCHANGED <<server, proxies, held, event, owner, exVars, qVars>>

\* The socket of user i closes: conn.resume().send1(Command::Logout).
ULogout(i) ==
    /\ client[i].pc = "await-conn"
    /\ oneshot_state(cells, client[i].ep.cell) = "ready"
    /\ \E c \in conns :
         /\ c.id = Connection_of(cells, client[i].ep).id
         /\ LET r == Connection_resume_as(Connection_of(cells, client[i].ep).cells,
                                          inbox, c, "send")
                w == Send_send(r.cells, r.session, CommandLogout, "end")
            IN /\ r.ok /\ w.ok
               /\ cells' = w.cells
               /\ inbox' = r.inbox
               /\ client' = [client EXCEPT ![i].pc = "done", ![i].ep = End,
                                           ![i].conn = c.id]
         /\ conns' = conns \ {c}
    /\ UNCHANGED <<server, proxies, held, event, owner, exVars, qVars>>

NextChat ==
    \/ TPollBegin
    \/ ChatLogin
    \/ ChatInbox
    \/ ChatResume
    \/ \E i \in DOMAIN client : UName(i)
    \/ \E i \in DOMAIN client : UGone(i)
    \/ \E i \in DOMAIN client : UResult(i)
    \/ \E i \in DOMAIN client : USay(i)
    \/ \E i \in DOMAIN client : ULogout(i)

ChatSpec == InitChat /\ [][NextChat]_vars

\* Where in `admitted` user i joined: the entry whose cell is the Inbox the
\* user gave; 0 while the server has not inserted it.
JoinedAt(i) ==
    LET at == {a \in DOMAIN owner.admitted :
                 client[i].gave # 0 /\ owner.admitted[a].cell = client[i].gave}
    IN IF at = {} THEN 0 ELSE CHOOSE a \in at : TRUE

\* Where the login of user i ended: the first "left" of its nick after its
\* join; one past the end of `admitted` while it is logged in.
LeftAt(i) ==
    LET at == {b \in DOMAIN owner.admitted :
                 /\ b > JoinedAt(i)
                 /\ owner.admitted[b].line = LineInfo("left", client[i].nick)}
    IN IF at = {} THEN Len(owner.admitted) + 1
       ELSE CHOOSE b \in at : \A j \in at : b <= j

\* The lines admitted while user i was logged in, in the order of admission.
LinesDuring(i) ==
    IF JoinedAt(i) = 0 THEN <<>>
    ELSE [m \in 1..(LeftAt(i) - JoinedAt(i)) |-> owner.admitted[JoinedAt(i) + m - 1].line]

\* The lines user i pushed into its own inbox.
OwnLines(i) ==
    <<LineInfo("What's your name?", 0)>>
    \o (IF client[i].result = "refused" THEN <<LineError("Login refused")>> ELSE <<>>)

\* C29: every line the server admits goes to the inbox of every nick logged in
\* at that moment, the sender's own included, and each inbox holds the lines
\* admitted during its login in the order of their admission, so that any two
\* inboxes hold their common lines in the same order.
C29_BroadcastToAll ==
    /\ \A i \in DOMAIN client :
         /\ InboxLines(cells, client[i].first) = OwnLines(i) \o LinesDuring(i)
         /\ \A m \in DOMAIN owner.admitted :
              (JoinedAt(i) # 0 /\ JoinedAt(i) <= m /\ m < LeftAt(i))
                  => client[i].nick \in owner.admitted[m].to
    /\ \A m \in DOMAIN owner.admitted :
         /\ \A k \in owner.admitted[m].to :
              \E i \in DOMAIN client :
                  /\ client[i].nick = k
                  /\ JoinedAt(i) # 0 /\ JoinedAt(i) <= m /\ m < LeftAt(i)
         /\ owner.admitted[m].line.line = "Message"
                => owner.admitted[m].line.nick \in owner.admitted[m].to
    /\ DOMAIN owner.inboxes =
           {client[i].nick : i \in {u \in DOMAIN client :
                                      JoinedAt(u) # 0 /\ LeftAt(u) > Len(owner.admitted)}}

\* Two users with different nicks are logged in and a message of one of them
\* is in both inboxes.
C29_Witness ==
    \E i, j \in DOMAIN client :
        /\ client[i].nick # client[j].nick
        /\ JoinedAt(i) # 0 /\ JoinedAt(j) # 0
        /\ \E m \in DOMAIN owner.admitted :
             /\ owner.admitted[m].line = LineMessage(client[i].nick, 1)
             /\ owner.admitted[m].to = {client[i].nick, client[j].nick}
             /\ \E x \in DOMAIN InboxLines(cells, client[i].first) :
                  InboxLines(cells, client[i].first)[x] = owner.admitted[m].line
             /\ \E y \in DOMAIN InboxLines(cells, client[j].first) :
                  InboxLines(cells, client[j].first)[y] = owner.admitted[m].line

\* The users that hold a login of nick k: accepted and not logged out.
LoggedIn(k) ==
    {i \in DOMAIN client :
        client[i].nick = k /\ client[i].result = "ok" /\ client[i].pc # "done"}

\* C30: a login is refused exactly when its nick is a key of the inboxes map
\* when its Connect event is handled; the refusal leaves the inboxes map and the
\* server's connection data as they were and makes no Connection; so no nick
\* ever has more than one login, more than one Connection or more than one
\* entry of connection data.
C30_LoginRefusedIffTaken ==
    /\ [][(/\ inbox.queue # <<>>
            /\ Head(inbox.queue).kind = "Connect"
            /\ Len(inbox'.queue) < Len(inbox.queue)) =>
            LET r == Recv_recv_ready(cells, Head(inbox.queue).session)
                answer == cells'[r.cont.cell].msg
            IN /\ answer.tag = "Send"
               /\ IF r.val.n \in DOMAIN owner.inboxes
                  THEN /\ answer.val = ErrRefused
                       /\ owner'.inboxes = owner.inboxes
                       /\ server'.data = server.data
                       /\ server'.next_id = server.next_id
                       /\ conns' = conns
                       /\ owner'.pc = "free"
                  ELSE /\ answer.val.tag = "variant"
                       /\ owner'.pc = "await-inbox"
                       /\ owner'.nick = r.val.n]_vars
    /\ [](/\ \A k \in 1..MaxClients : Cardinality(LoggedIn(k)) <= 1
          /\ \A c, d \in conns : c.want = d.want => c = d
          /\ \A c, d \in DOMAIN server.data : server.data[c] = server.data[d] => c = d
          /\ \A c \in DOMAIN server.data : server.data[c] \in DOMAIN owner.inboxes
          /\ \A c \in conns : c.id \in DOMAIN server.data /\ server.data[c.id] = c.want)

\* A login is refused while another user holds the nick it asked for.
C30_Witness ==
    \E i, j \in DOMAIN client :
        /\ client[i].result = "refused"
        /\ j \in LoggedIn(client[i].nick)
        /\ client[i].nick \in DOMAIN owner.inboxes

\* The cell an inbox ends in: the first one from `c` on that holds no item.
RECURSIVE InboxEnd(_, _)
InboxEnd(cs, c) ==
    IF cs[c].msg.tag = "Send" /\ cs[c].msg.val.tag = "item"
    THEN InboxEnd(cs, cs[c].msg.val.s.cell)
    ELSE c

\* The inbox of user i has been closed.
InboxClosed(cs, i) ==
    LET last == cs[InboxEnd(cs, client[i].first)].msg
    IN last.tag = "Send" /\ last.val.tag = "closed"

\* The server takes a Resume event off its inbox whose command is Logout.
LogoutHandled ==
    /\ inbox.queue # <<>>
    /\ Head(inbox.queue).kind = "Resume"
    /\ Len(inbox'.queue) < Len(inbox.queue)
    /\ cells[Head(inbox.queue).session.cell].msg.val = CommandLogout

\* C31: handling Logout takes the nick's inbox out of the map and closes it,
\* pushes "left" to each inbox that remains, removes the connection's data and
\* suspends nothing; from then on the lines of the closed inbox never change and
\* the connection's id never returns to the data map.
C31_Logout ==
    /\ [][LogoutHandled =>
            LET id == Head(inbox.queue).id
                nick == server.data[id]
            IN /\ nick \in DOMAIN owner.inboxes
               /\ DOMAIN owner'.inboxes = DOMAIN owner.inboxes \ {nick}
               /\ cells'[owner.inboxes[nick].cell].msg.tag = "Send"
               /\ cells'[owner.inboxes[nick].cell].msg.val.tag = "closed"
               /\ \A k \in DOMAIN owner'.inboxes :
                    /\ cells'[owner.inboxes[k].cell].msg.tag = "Send"
                    /\ cells'[owner.inboxes[k].cell].msg.val
                         = QueueItem(LineInfo("left", nick), RecvEp(owner'.inboxes[k].cell))
               /\ DOMAIN server'.data = DOMAIN server.data \ {id}
               /\ server'.next_id = server.next_id
               /\ conns' = conns
               /\ owner'.admitted = Append(owner.admitted,
                                           Admitted(LineInfo("left", nick),
                                                    DOMAIN owner.inboxes \ {nick}, 0))]_vars
    /\ [][\A i \in DOMAIN client :
            InboxClosed(cells, i) =>
                /\ InboxClosed(cells', i)
                /\ InboxLines(cells', client[i].first) = InboxLines(cells, client[i].first)]_vars
    /\ [](\A i \in DOMAIN client :
            (JoinedAt(i) # 0 /\ LeftAt(i) <= Len(owner.admitted)) =>
                /\ InboxClosed(cells, i)
                /\ client[i].pc = "done"
                /\ client[i].nick \notin owner.admitted[LeftAt(i)].to
                /\ client[i].conn \notin DOMAIN server.data
                /\ \A c \in conns : c.id # client[i].conn)

\* A user has logged out while another stays: its inbox is closed, the other
\* has the "left" notice and a line admitted after it.
C31_Witness ==
    \E i, j \in DOMAIN client :
        /\ JoinedAt(i) # 0
        /\ LeftAt(i) < Len(owner.admitted)
        /\ InboxClosed(cells, i)
        /\ client[j].nick \in DOMAIN owner.inboxes
        /\ client[j].nick \in owner.admitted[LeftAt(i)].to
        /\ \E x \in DOMAIN InboxLines(cells, client[j].first) :
             InboxLines(cells, client[j].first)[x] = LineInfo("left", client[i].nick)

\* ------------------------------------------------------ game of three players

\* Rounds a game is followed for.
MaxRounds == 2

\* enum Move { Up, Down }
MoveUp == 1
MoveDown == 2
Moves == {MoveUp, MoveDown}

\* enum Outcome { Win, Loss, Draw(Game) }: Draw is the variant with a session.
OutcomeWin == [tag |-> "Win", n |-> 0, s |-> End]
OutcomeLoss == [tag |-> "Loss", n |-> 0, s |-> End]

\* A match that lets the first player win whenever the moves are not all equal.
Judge_match_first(m1, m2, m3) == IF m1 = m2 /\ m2 = m3 THEN 0 ELSE 1

\* match (move1, move2, move3): the position of the winner (Winner::First,
\* Second, Third), 0 for the draw; the arms in their order.
Judge_match(m1, m2, m3) ==
    IF <<m1, m2, m3>> \in {<<MoveUp, MoveDown, MoveDown>>, <<MoveDown, MoveUp, MoveUp>>} THEN 1
    ELSE IF <<m1, m2, m3>> \in {<<MoveDown, MoveUp, MoveDown>>, <<MoveUp, MoveDown, MoveUp>>} THEN 2
    ELSE IF <<m1, m2, m3>> \in {<<MoveDown, MoveDown, MoveUp>>, <<MoveUp, MoveUp, MoveDown>>} THEN 3
    ELSE 0

\* random_player: `ep` is its Game, then the Recv<Outcome> it waits on; moves
\* and result are history.  main is the fourth task, waiting on Recv<Winner>,
\* with the position it receives in `winner`.
NewPlayer(pc, ep) ==
    [pc |-> pc, ep |-> ep, moves |-> <<>>, result |-> "none", winner |-> 0]

\* The task forked in start_playing, after players.recv().await: the three
\* Player endpoints, the Send<Winner>, and in `got` / `outs` the moves and
\* outcome endpoints of the round so far.  rounds / sent are history: the moves
\* of each round judged and the cells its outcomes were sent to.
NewJudge(p1, p2, p3, winner) ==
    [pc |-> "recv", players |-> <<p1, p2, p3>>, winner |-> winner,
     got |-> <<>>, outs |-> <<>>, rounds |-> <<>>, sent |-> <<>>]

\* main has forked three players and sent them to the judge, which has
\* received them: one cell for each Game and one for the Winner.
InitGame ==
    /\ cells = <<NewCell, NewCell, NewCell, NewCell>>
    /\ owner = NewJudge(RecvEp(1), RecvEp(2), RecvEp(3), SendEp(4))
    /\ client = <<NewPlayer("play", SendEp(1)), NewPlayer("play", SendEp(2)),
                  NewPlayer("play", SendEp(3)), NewPlayer("winner", RecvEp(4))>>
    /\ ExchangeIdle
    /\ QueueIdle
    /\ ServerIdle

\* Player i picks a move: game.send(my_move), and waits for the outcome.
GMove(i) ==
    /\ client[i].pc = "play"
    /\ Len(client[i].moves) < MaxRounds
    /\ \E m \in Moves :
         LET w == Send_send(cells, client[i].ep, IntVal(m), "recv")
         IN /\ w.ok
            /\ cells' = w.cells
            /\ client' = [client EXCEPT ![i].pc = "await", ![i].ep = w.cont,
                                        ![i].moves = Append(@, m)]
    /\ UNCHANGED <<owner, sVars, exVars, qVars>>

\* recv1().await of player i returns: Win and Loss end its loop, Draw(next)
\* makes next its game.
GOutcome(i) ==
    /\ client[i].pc = "await"
    /\ oneshot_state(cells, client[i].ep.cell) = "ready"
    /\ LET r == Recv_recv(cells, client[i].ep)
       IN /\ cells' = r.cells
          /\ client' = [client EXCEPT
                          ![i].pc = IF r.val.tag = "Win" THEN "won"
                                    ELSE IF r.val.tag = "Loss" THEN "lost" ELSE "play",
                          ![i].ep = r.val.s,
                          ![i].result = IF r.val.tag = "variant" THEN "none" ELSE r.val.tag]
    /\ UNCHANGED <<owner, sVars, exVars, qVars>>

\* The three outcomes of a round and what becomes of the judge: on a winner w
\* send1 of Win / Loss to the players in their order and winner.send1(w); on a
\* draw choose(Draw) on each outcome in their order, the endpoints returned
\* being the players of the next round.
RECURSIVE Judge_answer(_, _, _, _)
Judge_answer(cs, outs, w, k) ==
    IF k > Len(outs) THEN [ok |-> TRUE, cells |-> cs, players |-> <<>>]
    ELSE LET a == IF w = 0 THEN Send_choose(cs, outs[k], 1, "recv")
                  ELSE Send_send(cs, outs[k], IF w = k THEN OutcomeWin ELSE OutcomeLoss, "end")
             rest == Judge_answer(a.cells, outs, w, k + 1)
         IN [ok |-> a.ok /\ rest.ok, cells |-> rest.cells,
             players |-> <<a.cont>> \o rest.players]

\* playerK.recv().await returns, for the K the judge is waiting on; with the
\* third move the match runs to the end of its arm.
GJudge ==
    /\ owner.pc = "recv"
    /\ LET k == Len(owner.got) + 1
           r == Recv_recv(cells, owner.players[k])
           got == Append(owner.got, r.val.n)
           outs == Append(owner.outs, r.cont)
           w == Judge_match(got[1], got[2], got[3])
           a == Judge_answer(r.cells, outs, w, 1)
           t == Send_send(a.cells, owner.winner, IntVal(w), "end")
       IN /\ oneshot_state(cells, owner.players[k].cell) = "ready"
          /\ IF k < 3
             THEN /\ cells' = r.cells
                  /\ owner' = [owner EXCEPT !.got = got, !.outs = outs]
             ELSE /\ a.ok
                  /\ IF w = 0
                     THEN /\ cells' = a.cells
                          /\ owner' = [owner EXCEPT
                                         !.players = a.players, !.got = <<>>, !.outs = <<>>,
                                         !.rounds = Append(@, got),
                                         !.sent = Append(@, [k2 \in 1..3 |-> outs[k2].cell])]
                     ELSE /\ t.ok
                          /\ cells' = t.cells
                          /\ owner' = [owner EXCEPT
                                         !.pc = "done", !.winner = End,
                                         !.players = <<End, End, End>>,
                                         !.got = <<>>, !.outs = <<>>,
                                         !.rounds = Append(@, got),
                                         !.sent = Append(@, [k2 \in 1..3 |-> outs[k2].cell])]
    /\ UNCHANGED <<client, sVars, exVars, qVars>>

\* start_playing().send(..).recv1().await in main returns the winner.
GWinner ==
    /\ client[4].pc = "winner"
    /\ oneshot_state(cells, client[4].ep.cell) = "ready"
    /\ LET r == Recv_recv(cells, client[4].ep)
       IN /\ cells' = r.cells
          /\ client' = [client EXCEPT ![4].pc = "done", ![4].ep = End,
                                      ![4].winner = r.val.n]
    /\ UNCHANGED <<owner, sVars, exVars, qVars>>

NextGame ==
    \/ \E i \in 1..3 : GMove(i)
    \/ \E i \in 1..3 : GOutcome(i)
    \/ GJudge
    \/ GWinner

GameSpec == InitGame /\ [][NextGame]_vars

\* The players whose move in round r differs from both other moves.
OddOnes(r) == {k \in 1..3 : \A j \in (1..3) \ {k} : r[j] # r[k]}

\* C32: a round the judge closes holds the move each of the three players sent
\* in it.  If exactly one move differs from the other two, that player is sent
\* Win and the other two Loss, the Winner cell gets that player's position and
\* the judge ends; if the three moves are equal, every player is sent Draw with
\* the Game of a new cell, nothing is put in the Winner cell and the judge
\* waits for the moves of another round.
C32_JudgeTable ==
    /\ [][Len(owner'.rounds) # Len(owner.rounds) =>
            LET n == Len(owner'.rounds)
                r == owner'.rounds[n]
                c == owner'.sent[n]
            IN /\ n = Len(owner.rounds) + 1
               /\ \A k \in 1..3 : Len(client[k].moves) = n /\ r[k] = client[k].moves[n]
               /\ \A k \in 1..3 : cells'[c[k]].msg.tag = "Send" /\ cells'[c[k]].deposits = 1
               /\ IF r[1] = r[2] /\ r[2] = r[3]
                  THEN /\ \A k \in 1..3 :
                            LET out == cells'[c[k]].msg.val
                            IN /\ out.tag = "variant"
                               /\ out.s.kind = "send"
                               /\ out.s.cell > Len(cells)
                               /\ cells'[out.s.cell] = NewCell
                               /\ owner'.players[k] = RecvEp(out.s.cell)
                       /\ Cardinality({cells'[c[k]].msg.val.s.cell : k \in 1..3}) = 3
                       /\ cells'[4] = cells[4]
                       /\ cells'[4].deposits = 0
                       /\ owner'.pc = "recv"
                       /\ owner'.got = <<>>
                  ELSE \E w \in 1..3 :
                       /\ OddOnes(r) = {w}
                       /\ \A k \in 1..3 :
                            cells'[c[k]].msg.val = IF k = w THEN OutcomeWin ELSE OutcomeLoss
                       /\ cells'[4].msg.tag = "Send"
                       /\ cells'[4].msg.val = IntVal(w)
                       /\ owner'.pc = "done"]_vars
    /\ [][owner.pc = "done" => owner' = owner]_vars
    /\ [](/\ \A n \in DOMAIN owner.rounds :
               n < Len(owner.rounds) => OddOnes(owner.rounds[n]) = {}
          /\ owner.pc = "recv" => cells[4].deposits = 0 /\ client[4].winner = 0
          /\ \A k \in 1..3 :
               /\ client[k].result = "Win"
                     => OddOnes(owner.rounds[Len(owner.rounds)]) = {k}
               /\ client[k].result = "Loss"
                     => \E w \in (1..3) \ {k} : OddOnes(owner.rounds[Len(owner.rounds)]) = {w}
               /\ client[k].result # "none" => owner.pc = "done"
          /\ client[4].winner # 0
                => OddOnes(owner.rounds[Len(owner.rounds)]) = {client[4].winner})

\* After a draw the third player alone moves differently in the second round:
\* it has its Win, the others their Loss, and main has the winner.
C32_Witness ==
    /\ Len(owner.rounds) = 2
    /\ OddOnes(owner.rounds[1]) = {}
    /\ OddOnes(owner.rounds[2]) = {3}
    /\ client[3].result = "Win"
    /\ client[1].result = "Loss"
    /\ client[2].result = "Loss"
    /\ client[4].winner = 3

\* ------------------------------------------------ server: ids and the data map

\* The ids in use: the keys of the data map, the ids of the Connections alive
\* and the ids of the Resume events in the inbox.
IdsInUse ==
    DOMAIN server.data
    \cup {c.id : c \in conns}
    \cup {inbox.queue[i].id : i \in {j \in DOMAIN inbox.queue : inbox.queue[j].kind = "Resume"}}

\* C33: a server starts with an empty data map and next_id = 0; next_id never
\* decreases, and a step that changes it is a suspend: it adds 1, stores the
\* data under the old next_id, which was no key of the map and the id of no
\* handle, hands out one Connection with that id and leaves the other entries
\* as they were; every id in use is smaller than next_id.
C33_NextId ==
    /\ server.next_id = 0 /\ server.data = <<>>
    /\ [][/\ server'.next_id >= server.next_id
          /\ server'.next_id # server.next_id =>
                /\ server'.next_id = server.next_id + 1
                /\ server.next_id \notin IdsInUse
                /\ DOMAIN server'.data = DOMAIN server.data \cup {server.next_id}
                /\ \A k \in DOMAIN server.data : server'.data[k] = server.data[k]
                /\ \E c \in conns' \ conns :
                      /\ conns' = conns \cup {c}
                      /\ c.id = server.next_id
                      /\ server'.data[c.id] = c.want
          /\ server'.next_id = server.next_id =>
                /\ DOMAIN server'.data \subseteq DOMAIN server.data
                /\ conns' \subseteq conns]_vars
    /\ [](/\ \A k \in IdsInUse : k < server.next_id
          /\ \A c, d \in conns : c.id = d.id => c = d)

\* Two suspends have been made and the first Connection has been resumed and
\* polled: key 1 is in the map, key 0 is not, next_id is 2.
C33_Witness ==
    /\ server.next_id = 2
    /\ DOMAIN server.data = {1}
    /\ event.kind = "Resume"

\* poll returns: the await inside it ends with an event or with None.
PollReturns == server.pc = "polling" /\ server'.pc # "polling"

\* C34: a poll that returns a Resume removes from the data map exactly the
\* entry of the id the event came with and hands out what was stored there; a
\* poll that returns a Connect or None leaves the map as it is; calling poll
\* and returning from it leave next_id alone.  So each step changes the size of
\* the map by one up for a suspend and one down for a Resume returned.
C34_PollFrame ==
    /\ [][PollReturns =>
            /\ server'.next_id = server.next_id
            /\ IF inbox.queue # <<>> /\ Head(inbox.queue).kind = "Resume"
               THEN LET id == Head(inbox.queue).id
                    IN /\ event'.kind = "Resume"
                       /\ id \in DOMAIN server.data
                       /\ event'.data = server.data[id]
                       /\ DOMAIN server'.data = DOMAIN server.data \ {id}
                       /\ \A k \in DOMAIN server'.data : server'.data[k] = server.data[k]
               ELSE /\ event'.kind \in {"Connect", "None"}
                    /\ event'.kind = "None" <=> inbox.queue = <<>>
                    /\ server'.data = server.data]_vars
    /\ [][(server.pc = "idle" /\ server'.pc = "polling") =>
            server'.next_id = server.next_id /\ server'.data = server.data]_vars
    /\ [][Cardinality(DOMAIN server'.data) =
            Cardinality(DOMAIN server.data)
            + (IF conns' \ conns # {} THEN 1 ELSE 0)
            - (IF PollReturns /\ event'.kind = "Resume" THEN 1 ELSE 0)]_vars

\* Of two connections the second has been resumed and its Resume returned by
\* poll: the entry of the first is still in the map.
C34_Witness ==
    /\ event.kind = "Resume"
    /\ event.want = 2
    /\ DOMAIN server.data = {0}
    /\ server.data[0] = 1

\* ------------------------------------------- server: the Senders of the inbox

\* mpsc::channel(0) with each Sender told apart.  slots[s] is the parked flag of
\* Sender s and parkedq the queue of parked Senders: a channel of buffer 0
\* parks every Sender whose message it takes, try_send from a parked Sender is
\* refused as full, and the Receiver unparks the oldest parked Sender with
\* each message it takes out.
SlotChannel == [queue |-> <<>>, num_senders |-> 0, rx |-> TRUE, slots |-> <<>>, parkedq |-> <<>>]

\* Sender::clone: one more Sender, not parked whatever the state of the one it
\* is cloned from.
Sender_clone(ch) ==
    [ch |-> [ch EXCEPT !.slots = Append(@, FALSE), !.num_senders = @ + 1],
     sender |-> Len(ch.slots) + 1]

\* Sender::try_send(msg) on Sender s.
Sender_try_send(ch, s, msg) ==
    IF ch.slots[s] THEN [result |-> "full", ch |-> ch]
    ELSE IF ~ch.rx THEN [result |-> "disconnected", ch |-> ch]
    ELSE [result |-> "ok",
          ch |-> [ch EXCEPT !.queue = Append(@, msg),
                            !.slots[s] = TRUE,
                            !.parkedq = Append(@, s)]]

\* A Sender is dropped.
Sender_drop(ch) == [ch EXCEPT !.num_senders = @ - 1]

\* Receiver::next() with a message in the queue.
Receiver_next(ch) ==
    [msg |-> Head(ch.queue),
     ch |-> IF ch.parkedq = <<>> THEN [ch EXCEPT !.queue = Tail(@)]
            ELSE [ch EXCEPT !.queue = Tail(@),
                            !.slots[Head(ch.parkedq)] = FALSE,
                            !.parkedq = Tail(@)]]

\* An event in the inbox with the Sender that travels with it.
SlotMsg(kind, session, id, sender) ==
    [kind |-> kind, session |-> session, id |-> id, sender |-> sender]

\* A connect or resume call made: the Sender its try_send was on, how it
\* ended and the session it returned.
Called(call, sender, result, session) ==
    [call |-> call, sender |-> sender, result |-> result, session |-> session]

\* The n-th Proxy made, with the proxy_sender in its closure.
ProxyOf(n, sender) == [n |-> n, sender |-> sender]

\* Proxy::clone handing the new Proxy the Sender of the old one.
Proxy_clone_shared(ch, p) == [ch |-> ch, sender |-> p]

\* Proxy::clone(&self, f): self.connect.clone() clones the closure and the
\* proxy_sender in it.
Proxy_clone_sender(ch, p) == Sender_clone(ch)

\* Proxy::connect(self) of the Proxy with proxy_sender p: Connect::fork_sync,
\* and in the closure proxy_sender.clone() for the message, try_send on
\* proxy_sender itself and .expect("server dropped"); the closure and its
\* Sender are dropped.  On Err the message comes back and is dropped.
Proxy_connect_sender(cs, ch, p) ==
    LET f == fork_sync("send", cs)
        k == Sender_clone(ch)
        r == Sender_try_send(k.ch, p, SlotMsg("Connect", f.dual, 0, k.sender))
    IN IF r.result = "ok"
       THEN [result |-> "ok", cells |-> f.cells, inbox |-> Sender_drop(r.ch),
             session |-> f.self]
       ELSE [result |-> r.result, cells |-> DropEp(DropEp(f.cells, f.dual), f.self),
             inbox |-> Sender_drop(Sender_drop(r.ch)), session |-> End]

\* Server::suspend: self.sender.clone() goes into the resume closure.
Server_suspend_sender(srv, ch, d) ==
    LET k == Sender_clone(ch)
    IN [server |-> [srv EXCEPT !.next_id = @ + 1, !.data = MapInsert(@, srv.next_id, d)],
        inbox |-> k.ch,
        conn |-> [id |-> srv.next_id, want |-> d, sender |-> k.sender]]

\* Connection::resume(self): sender.0.clone().try_send((sender, Resume)), the
\* message taking the closure's Sender and the temporary clone sending it.
Connection_resume_sender(cs, ch, c) ==
    LET f == fork_sync("send", cs)
        k == Sender_clone(ch)
        r == Sender_try_send(k.ch, k.sender, SlotMsg("Resume", f.dual, c.id, c.sender))
    IN IF r.result = "ok"
       THEN [result |-> "ok", cells |-> f.cells, inbox |-> Sender_drop(r.ch),
             session |-> f.self, via |-> k.sender]
       ELSE [result |-> r.result, cells |-> DropEp(DropEp(f.cells, f.dual), f.self),
             inbox |-> Sender_drop(Sender_drop(r.ch)), session |-> End, via |-> k.sender]

\* Server::start has returned: tx is the server's Sender, its clone the
\* proxy_sender of the first Proxy.
InitSlots ==
    /\ server = [pc |-> "idle", sender |-> 1, data |-> <<>>, next_id |-> 0, fault |-> "none"]
    /\ inbox = Sender_clone(Sender_clone(SlotChannel).ch).ch
    /\ proxies = [alive |-> {ProxyOf(1, 2)}, made |-> 1]
    /\ conns = {}
    /\ held = {}
    /\ event = NoEvent
    /\ cells = <<>>
    /\ TasksIdle
    /\ ExchangeIdle
    /\ QueueIdle

\* Connections the server makes while its Senders are followed.
SlotSuspends == MaxSuspends - 1

\* The owner of the Server calls suspend(d, f); the data plays no part here
\* and is the id.
FSuspend ==
    /\ server.pc = "idle"
    /\ server.next_id < SlotSuspends
    /\ LET r == Server_suspend_sender(server, inbox, server.next_id)
       IN /\ server' = r.server
          /\ inbox' = r.inbox
          /\ conns' = conns \cup {r.conn}
    /\ UNCHANGED <<cells, proxies, held, event, exVars, qVars, tVars>>

\* The owner calls poll: drop(self.sender).
FPollBegin ==
    /\ server.pc = "idle"
    /\ server' = [server EXCEPT !.pc = "polling", !.sender = 0]
    /\ inbox' = Sender_drop(inbox)
    /\ UNCHANGED <<cells, proxies, conns, held, event, exVars, qVars, tVars>>

\* receiver.next() is ready: Some((sender, event)) makes sender the server's
\* own and a Resume takes its data out of the map; None ends the server.
FPollEnd ==
    /\ server.pc = "polling"
    /\ inbox.queue # <<>> \/ inbox.num_senders = 0
    /\ IF inbox.queue = <<>>
       THEN /\ server' = [server EXCEPT !.pc = "done"]
            /\ inbox' = [inbox EXCEPT !.rx = FALSE]
            /\ event' = PollNone
       ELSE LET r == Receiver_next(inbox)
            IN /\ inbox' = r.ch
               /\ IF r.msg.kind = "Connect"
                  THEN /\ server' = [server EXCEPT !.pc = "idle", !.sender = r.msg.sender]
                       /\ event' = EventConnect(r.msg.session)
                  ELSE /\ server' = [server EXCEPT !.pc = "idle", !.sender = r.msg.sender,
                                                   !.data = MapRemove(@, r.msg.id)]
                       /\ event' = EventResume(r.msg.session, server.data[r.msg.id], 0)
    /\ UNCHANGED <<cells, proxies, conns, held, exVars, qVars, tVars>>

\* The holder of Proxy p clones it.
FClone(p) ==
    /\ p \in proxies.alive
    /\ proxies.made < MaxProxies
    /\ LET r == Proxy_clone_sender(inbox, p.sender)
       IN /\ inbox' = r.ch
          /\ proxies' = [alive |-> proxies.alive \cup {ProxyOf(proxies.made + 1, r.sender)},
                         made |-> proxies.made + 1]
    /\ UNCHANGED <<cells, server, conns, held, event, exVars, qVars, tVars>>

\* The holder of Proxy p calls connect.
FConnect(p) ==
    /\ p \in proxies.alive
    /\ LET r == Proxy_connect_sender(cells, inbox, p.sender)
       IN /\ cells' = r.cells
          /\ inbox' = r.inbox
          /\ held' = held \cup {Called("connect", p.sender, r.result, r.session)}
    /\ proxies' = [proxies EXCEPT !.alive = @ \ {p}]
    /\ UNCHANGED <<server, conns, event, exVars, qVars, tVars>>

\* The holder of Connection c calls resume.
FResume(c) ==
    /\ c \in conns
    /\ LET r == Connection_resume_sender(cells, inbox, c)
       IN /\ cells' = r.cells
          /\ inbox' = r.inbox
          /\ held' = held \cup {Called("resume", r.via, r.result, r.session)}
    /\ conns' = conns \ {c}
    /\ UNCHANGED <<server, proxies, event, exVars, qVars, tVars>>

\* A Proxy or a Connection is dropped unused, and its Sender with it.
FDropProxy(p) ==
    /\ p \in proxies.alive
    /\ proxies' = [proxies EXCEPT !.alive = @ \ {p}]
    /\ inbox' = Sender_drop(inbox)
    /\ UNCHANGED <<cells, server, conns, held, event, exVars, qVars, tVars>>

FDropConn(c) ==
    /\ c \in conns
    /\ conns' = conns \ {c}
    /\ inbox' = Sender_drop(inbox)
    /\ UNCHANGED <<cells, server, proxies, held, event, exVars, qVars, tVars>>

NextSlots ==
    \/ FSuspend
    \/ FPollBegin
    \/ FPollEnd
    \/ \E p \in proxies.alive : FClone(p)
    \/ \E p \in proxies.alive : FConnect(p)
    \/ \E p \in proxies.alive : FDropProxy(p)
    \/ \E c \in conns : FResume(c)
    \/ \E c \in conns : FDropConn(c)

SlotSpec == InitSlots /\ [][NextSlots]_vars

\* C35: while the Server exists no connect and no resume fails.  Every call
\* made has ended well and each has sent through a Sender no other call has
\* used; the Sender of every Proxy alive is not parked, and whatever is already
\* in the inbox, a connect of any Proxy alive and a resume of any Connection
\* alive would be taken.
C35_NeverFull ==
    /\ \A h \in held : h.result = "ok"
    /\ \A h, g \in held : h.sender = g.sender => h = g
    /\ (proxies.alive # {} \/ conns # {}) => inbox.rx
    /\ \A p \in proxies.alive :
         /\ ~inbox.slots[p.sender]
         /\ Proxy_connect_sender(cells, inbox, p.sender).result = "ok"
    /\ \A p, q \in proxies.alive : p.sender = q.sender => p = q
    /\ \A c \in conns : Connection_resume_sender(cells, inbox, c).result = "ok"

\* Two events are waiting in the inbox unpolled and a third call has been
\* taken as well.
C35_Witness ==
    /\ Len(inbox.queue) >= 3
    /\ Cardinality(held) >= 3
    /\ \E h \in held : h.call = "connect"
    /\ \E h \in held : h.call = "resume"
    /\ \A h \in held : h.result = "ok"

\* ------------------------------------------------------- server: the events

\* The cells of the sessions whose events wait in the inbox.
QueuedCells == {inbox.queue[i].session.cell : i \in DOMAIN inbox.queue}

\* C36: the inbox changes only by one event added at its end or its oldest
\* event taken by poll.  An added event comes from a connect, which uses up one
\* Proxy, or from a resume, which uses up the one Connection of its id, and its
\* session is the other half of a new cell whose first half the call returns;
\* cloning a Proxy adds nothing.  The event poll returns is the oldest one with
\* its session.  So no session is in the inbox twice or comes back to it, and
\* if the server polls again and again every session in the inbox, also one
\* put there before start returned, is eventually the session of the event
\* that poll returns.
C36_EventsOnce ==
    /\ [][\/ inbox'.queue = inbox.queue
          \/ /\ inbox.queue # <<>>
             /\ inbox'.queue = Tail(inbox.queue)
             /\ server.pc = "polling"
             /\ event'.kind = Head(inbox.queue).kind
             /\ event'.session = Head(inbox.queue).session
             /\ PeerOf(event'.session) \in held
          \/ \E m \in {inbox'.queue[i] : i \in DOMAIN inbox'.queue} :
               /\ inbox'.queue = Append(inbox.queue, m)
               /\ Len(cells') = Len(cells) + 1
               /\ m.session = RecvEp(Len(cells'))
               /\ held' = held \cup {SendEp(Len(cells'))}
               /\ IF m.kind = "Connect"
                  THEN proxies'.alive = proxies.alive - 1 /\ conns' = conns
                  ELSE /\ proxies' = proxies
                       /\ \E c \in conns : c.id = m.id /\ conns' = conns \ {c}]_vars
    /\ [][proxies'.made # proxies.made => inbox'.queue = inbox.queue]_vars
    /\ [](/\ \A i, j \in DOMAIN inbox.queue :
               inbox.queue[i].session = inbox.queue[j].session => i = j
          /\ \A c \in QueuedCells : c <= Len(cells) /\ SendEp(c) \in held
          /\ event.kind \in {"Connect", "Resume"} => event.session.cell \notin QueuedCells)
    /\ []<>(server.pc = "polling") =>
          \A c \in 1..(MaxProxies + MaxSuspends) :
              (c \in QueuedCells) ~> (event.kind \in {"Connect", "Resume"} /\ event.session = RecvEp(c))

\* poll has returned the Connect of a session whose other half a caller holds,
\* while a Resume made later waits in the inbox.
C36_Witness ==
    /\ event.kind = "Connect"
    /\ PeerOf(event.session) \in held
    /\ \E i \in DOMAIN inbox.queue : inbox.queue[i].kind = "Resume"
    /\ Cardinality(held) >= 2

\* The server polled again and again by its owner, with the handles used up by
\* connect and resume or kept: the wake-up of poll's await is fair as in
\* FairServerSpec.
EventSpec == InitS /\ [][NextLinear]_vars /\ WF_vars(SrvPollEnd)

\* ------------------------------------------------- endpoints in any hands

\* The heap never holds more cells than this: no send with a continuation and
\* no push is started beyond it.
MaxCells == 4

\* What is sent and pushed here: the cells are the subject, one value is enough.
HeapValues == {MaxVal}

\* Two freshly forked pairs Recv / Send whose four endpoints are owned by the
\* program: `held` is the set of endpoints some task owns.  Every endpoint is
\* owned once, so any of the calls below can come next.
InitHeap ==
    /\ cells = <<NewCell, NewCell>>
    /\ held = {RecvEp(1), SendEp(1), RecvEp(2), SendEp(2)}
    /\ server = [pc |-> "off", sender |-> FALSE, data |-> <<>>, next_id |-> 0, fault |-> "none"]
    /\ inbox = [queue |-> <<>>, num_senders |-> 0, rx |-> FALSE]
    /\ proxies = [alive |-> 0, made |-> 0]
    /\ conns = {}
    /\ event = NoEvent
    /\ ExchangeIdle
    /\ QueueIdle
    /\ TasksIdle

\* The endpoints of `eps` that are sessions, () left out.
Owned(eps) == {e \in eps : e.kind # "end"}

\* Some task calls send(v) on a Send it owns, with a continuation of any kind,
\* and owns the continuation.  On the panic "receiver dropped" the unwinding
\* drops the pair forked for the continuation.
HSend(e) ==
    /\ e \in held
    /\ e.kind = "send"
    /\ \E v \in HeapValues, kind \in {"end", "recv", "send"} :
         /\ kind # "end" => Len(cells) < MaxCells
         /\ LET r == Send_send(cells, e, IntVal(v), kind)
            IN IF r.ok
               THEN /\ cells' = r.cells
                    /\ held' = (held \ {e}) \cup Owned({r.cont})
               ELSE /\ cells' = DropEp(DropEp(r.cells, r.cont), PeerOf(r.cont))
                    /\ held' = held \ {e}
    /\ UNCHANGED <<exVars, qVars, server, inbox, proxies, conns, event, tVars>>

\* Some task calls push(v) on the Enqueue around a Send it owns and owns the
\* Enqueue returned.
HPush(e) ==
    /\ e \in held
    /\ e.kind = "send"
    /\ Len(cells) < MaxCells
    /\ \E v \in HeapValues :
         LET r == Enqueue_push(cells, e, v)
         IN IF r.ok
            THEN /\ cells' = r.cells
                 /\ held' = (held \ {e}) \cup {r.enq}
            ELSE /\ cells' = DropEp(DropEp(r.cells, r.enq), PeerOf(r.enq))
                 /\ held' = held \ {e}
    /\ UNCHANGED <<exVars, qVars, server, inbox, proxies, conns, event, tVars>>

\* Some task is inside recv() on a Recv it owns and the cell is still empty.
HPark(e) ==
    /\ e \in held
    /\ e.kind = "recv"
    /\ oneshot_state(cells, e.cell) = "pending"
    /\ ~cells[e.cell].parked
    /\ cells' = oneshot_park(cells, e.cell)
    /\ UNCHANGED <<held, exVars, qVars, server, inbox, proxies, conns, event, tVars>>

\* Some task is inside recv() on a Recv it owns and the cell holds something:
\* one turn of the loop.  When recv returns, the task owns the continuation
\* and the endpoint inside the value; an Exchange::Link makes it own the linked
\* Recv.  A cancelled cell is the panic "sender dropped".
HRecv(e) ==
    /\ e \in held
    /\ e.kind = "recv"
    /\ oneshot_state(cells, e.cell) # "pending"
    /\ IF oneshot_state(cells, e.cell) = "ready"
       THEN LET r == Recv_recv(cells, e)
            IN /\ cells' = r.cells
               /\ held' = (held \ {e}) \cup
                          (IF r.done THEN Owned({r.cont, r.val.s}) ELSE {r.self})
       ELSE /\ cells' = DropEp(cells, e)
            /\ held' = held \ {e}
    /\ UNCHANGED <<exVars, qVars, server, inbox, proxies, conns, event, tVars>>

\* Some task links a Recv and a Send it owns, as recv.link(send) or as
\* send.link(recv).  On the panic "receiver dropped" the Recv given to link is
\* dropped with the message.
HLink(r, s) ==
    /\ r \in held
    /\ s \in held
    /\ r.kind = "recv"
    /\ s.kind = "send"
    /\ \E form \in {"Recv::link", "Send::link"} :
         LET l == IF form = "Recv::link"
                  THEN Recv_link(cells, r, s)
                  ELSE Send_link(cells, s, r)
         IN /\ cells' = IF l.ok THEN l.cells ELSE DropEp(cells, r)
            /\ held' = held \ {r, s}
    /\ UNCHANGED <<exVars, qVars, server, inbox, proxies, conns, event, tVars>>

\* Some task drops an endpoint it owns.
HDrop(e) ==
    /\ e \in held
    /\ cells' = DropEp(cells, e)
    /\ held' = held \ {e}
    /\ UNCHANGED <<exVars, qVars, server, inbox, proxies, conns, event, tVars>>

\* Every endpoint a cell of the heap can have.
Endpoints == {RecvEp(c) : c \in 1..MaxCells} \cup {SendEp(c) : c \in 1..MaxCells}

NextHeap ==
    \/ \E e \in Endpoints : HSend(e)
    \/ \E e \in Endpoints : HPush(e)
    \/ \E e \in Endpoints : HPark(e)
    \/ \E e \in Endpoints : HRecv(e)
    \/ \E r \in Endpoints, s \in Endpoints : HLink(r, s)
    \/ \E e \in Endpoints : HDrop(e)

\* The library under any program: the calls of exchange.rs and push in any
\* order on endpoints owned once.
HeapSpec == InitHeap /\ [][NextHeap]_vars

\* A deposit goes into cell c in this step.
DepositInto(c) == c \in DOMAIN cells /\ cells[c].deposits = 0 /\ cells'[c].deposits = 1

\* The step leaves the heap with one more cell, new and untouched, and `ep` is
\* an endpoint of it.
OneFreshCell(ep) ==
    /\ Len(cells') = Len(cells) + 1
    /\ cells'[Len(cells')] = NewCell
    /\ ep.cell = Len(cells')

\* C37: in every reachable state each exchange cell has received at most one
\* deposit, which is an Exchange::Send carrying a value and a continuation or an
\* Exchange::Link carrying a Recv, never one after the other, and each deposit
\* has been taken out at most once and only after it was put in; every send
\* allocates exactly one fresh cell for its continuation, none when the
\* continuation is (), every push allocates exactly one fresh cell, whose Recv
\* is the Dequeue inside the item, and a link allocates none.
C37_OneShot ==
    /\ [](\A c \in DOMAIN cells :
            /\ cells[c].deposits \in 0..1
            /\ cells[c].takes \in 0..cells[c].deposits
            /\ cells[c].msg.tag \in {"None", "Send", "Link"}
            /\ cells[c].msg.tag # "None" => cells[c].deposits = 1 /\ cells[c].takes = 0
            /\ cells[c].msg.tag = "Send" => cells[c].msg.val.tag \in {"int", "item", "closed"}
            /\ cells[c].msg.tag = "Link" =>
                 cells[c].msg.val = NoVal /\ cells[c].msg.ep.kind = "recv")
    /\ [][\A c \in 1..(MaxCells + 1) :
            /\ DepositInto(c) =>
                 LET m == cells'[c].msg
                 IN /\ \A d \in DOMAIN cells \ {c} : cells'[d].deposits = cells[d].deposits
                    /\ m.tag \in {"Send", "Link"}
                    /\ m.tag = "Send" /\ m.val.tag = "int" =>
                         IF m.ep = End THEN Len(cells') = Len(cells) ELSE OneFreshCell(m.ep)
                    /\ m.tag = "Send" /\ m.val.tag = "item" =>
                         m.ep = End /\ m.val.s.kind = "recv" /\ OneFreshCell(m.val.s)
                    /\ m.tag = "Link" => Len(cells') = Len(cells)
            /\ c \in DOMAIN cells /\ cells'[c].takes # cells[c].takes =>
                 /\ cells[c].msg.tag # "None"
                 /\ cells'[c].msg.tag = "None"
                 /\ cells'[c].takes = 1
                 /\ cells'[c].deposits = 1]_vars

\* C37 (witness): a value sent with a continuation has been received, a cell
\* holds a linked Recv and another holds a pushed item.
C37_Witness ==
    \E a \in DOMAIN cells, b \in DOMAIN cells, c \in DOMAIN cells :
        /\ cells[a].takes = 1
        /\ cells[b].msg.tag = "Link"
        /\ cells[c].msg.tag = "Send"
        /\ cells[c].msg.val.tag = "item"
        /\ \E d \in DOMAIN cells : d > 2 /\ cells[d].deposits = 1

\* ---- exchange: link and the dropped receiver

\* Linker j's call of link is this step.
LinkStep(j) ==
    /\ j \in DOMAIN linker
    /\ ~linker[j].done
    /\ linker[j].fault = "none"
    /\ linker'[j] # linker[j]

\* C39: a link, called on the Recv or on the Send, puts Exchange::Link with the
\* Recv into the cell of the Send endpoint and leaves the cell of the Recv
\* alone; if the Recv paired with that Send endpoint is already dropped at the
\* call, the link ends in the fault "receiver dropped" with nothing deposited,
\* and if it is not, the link completes without a fault.
C39_LinkFaults ==
    [][\A j \in 1..(MaxLinks + 1) :
         LinkStep(j) =>
             LET l == linker[j]
             IN IF cells[l.send.cell].rxDropped
                THEN /\ linker'[j].fault = "receiver dropped"
                     /\ ~linker'[j].done
                     /\ \A c \in DOMAIN cells :
                          /\ cells'[c].deposits = cells[c].deposits
                          /\ cells'[c].msg \in {cells[c].msg, NoMsg}
                ELSE /\ linker'[j].fault = "none"
                     /\ linker'[j].done
                     /\ cells'[l.send.cell].msg = ExchangeLink(l.recv)
                     /\ cells'[l.send.cell].deposits = cells[l.send.cell].deposits + 1
                     /\ \A c \in DOMAIN cells \ {l.send.cell} : cells'[c] = cells[c]]_vars

\* C39 (witness): the second linker linked, Y dropped its Recv and with it the
\* Recv forwarded to it, and the first linker's link then ended in "receiver
\* dropped"; X's value stays where it was sent.
C39_Witness ==
    /\ Len(linker) = 2
    /\ linker[2].done
    /\ linker[1].fault = "receiver dropped"
    /\ Dropped("Y", "recv")
    /\ cells[2].rxDropped
    /\ cells[2].deposits = 0

\* ------------------------------------------------------- queue: linked ends

\* Dequeue::link handing its own Recv to itself instead of to the Enqueue.
Dequeue_link_own_cell(cs, self, dual) == Recv_link_own_cell(cs, self, dual)

\* Dequeue::link(self, dual) is self.deq.link(dual.enq).
Dequeue_link(cs, self, dual) == Recv_link(cs, self, dual)

\* Enqueue::link(self, dual) is self.enq.link(dual.deq).
Enqueue_link(cs, self, dual) == Send_link(cs, self, dual)

\* Two queues forked apart: the producer holds the Enqueue of the first, the
\* consumer the Dequeue of the second, and a third task holds the Dequeue D of
\* the first and the Enqueue E of the second, which it will link.
InitLQ ==
    \E kind \in {"end", "recv"}, mode \in {"pop", "fold"}, init \in 0..MaxInit :
        /\ cells = <<NewCell, NewCell>>
        /\ prod = NewProd(SendEp(1), kind, "push")
        /\ cons = NewCons(RecvEp(2), mode, init, "pop")
        /\ peer = [p \in Peers |-> NewPeer(End, <<>>)]
        /\ linker = <<NewLinker(1)>>
        /\ ty = NewType(<<>>)
        /\ ServerIdle
        /\ TasksIdle

\* The third task calls D.link(E) or E.link(D).  sawQueued / sawParked record
\* whether the producer had pushed or closed and whether the consumer was
\* already waiting in pop.
QLink ==
    /\ ~linker[1].done
    /\ linker[1].fault = "none"
    /\ \E form \in {"Dequeue::link", "Enqueue::link"} :
         LET l == linker[1]
             r == IF form = "Dequeue::link"
                  THEN Dequeue_link(cells, l.recv, l.send)
                  ELSE Enqueue_link(cells, l.send, l.recv)
         IN IF r.ok
            THEN /\ cells' = r.cells
                 /\ linker' = [linker EXCEPT
                                 ![1].done = TRUE,
                                 ![1].sawQueued = (cells[l.recv.cell].deposits > 0),
                                 ![1].sawParked = cells[l.send.cell].parked]
            ELSE /\ cells' = DropEp(cells, l.recv)
                 /\ linker' = [linker EXCEPT ![1].fault = "receiver dropped"]
    /\ UNCHANGED <<peer, ty, qVars, sVars, tVars>>

NextLQ ==
    \/ NextQ
    \/ QLink

LinkedQueueSpec == InitLQ /\ [][NextLQ]_vars

\* C38: with the Dequeue fed by the producer linked to the Enqueue drained by
\* the consumer, in either form and at any moment, the consumer pops the items
\* the producer pushed, in push order, then Closed once, carrying the other half
\* of the continuation the producer's close returned; a fold gives the left fold
\* of the pushed items; nobody faults and, once the link is made and the queue
\* closed, the consumer is not left waiting.
C38_LinkedQueue ==
    /\ IsPrefix(cons.popped, prod.pushed)
    /\ cons.popped # <<>> => linker[1].done
    /\ cons.nclosed <= 1
    /\ cons.nclosed = 1 =>
         /\ linker[1].done
         /\ prod.pc \notin {"push", "idle"}
         /\ cons.popped = prod.pushed
         /\ cons.deq = End
         /\ cons.pc = "closed" => cons.cont = PeerOf(prod.cont)
         /\ cons.mode = "fold" => cons.accum = LeftFold(cons.init, prod.pushed)
    /\ prod.result # <<>> => prod.result = <<cons.accum>>
    /\ prod.fault = "none" /\ cons.fault = "none" /\ linker[1].fault = "none"
    /\ (~ENABLED NextLQ) =>
         /\ linker[1].done
         /\ cons.nclosed = 1
         /\ cons.pc \in {"closed", "done"}

\* C38 (witness): the consumer was waiting in pop and the producer had pushed
\* when the link was made; the consumer went through the link and popped both
\* items and Closed with the continuation.
C38_Witness ==
    /\ linker[1].done
    /\ linker[1].sawQueued
    /\ linker[1].sawParked
    /\ prod.pushed = <<2, 1>>
    /\ cons.popped = <<2, 1>>
    /\ cons.lead = MaxPush
    /\ cons.pc = "closed"
    /\ cons.cont.kind = "send"
    /\ prod.cont = PeerOf(cons.cont)

====
